---- MODULE Spec2Model ----
(***************************************************************************)
(* The version scrapers of Week3/Codes: the heuristic text parsing          *)
(* (version token, date, text cleaning), the per-page scan of the document  *)
(* elements, the in-extraction fallback substitution and the                *)
(* deduplication by version.                                                *)
(*                                                                          *)
(* A Python str is a sequence of one-character strings, so that find,       *)
(* strip, split, replace, lower, isdigit and slicing are computed the way   *)
(* the interpreter computes them.  Python's None is the value None below.   *)
(* An Optional record (a dict or None) is a sequence of zero or one record. *)
(***************************************************************************)
EXTENDS Integers, Sequences, FiniteSets, TLC

VARIABLES
    scraper,        \* which scraper class runs: "java", "dotnet", "winserver", "oracle", "dbf"
    page,           \* the loaded document: its elements, in document order
    pc,             \* position of the run
    versions_data,  \* the records collected before deduplication
    result,         \* what the extraction method returned
    fault,          \* the driver call that raises during the run, if any
    version_data,   \* main's list: what is handed to save_to_csv
    csv,            \* the file save_to_csv wrote: its header line and its rows, or None
    text,           \* the argument of the text function under study
    fn,             \* the text function that was applied ("none" before)
    out,            \* what it returned
    again,          \* what it returned when applied to its own result
    accounts,       \* the BankAccount instances created so far, in creation order
    clock,          \* the last reading of time.time(), in whole seconds
    call,           \* the last BankAccount call: its arguments, what it found, what it raised
    ledger,         \* per account: initial balance plus the deposits minus the withdrawals that returned
    books,          \* the Book instances: available, borrowed_by, due_date of each
    borrowed_books, \* each Member's borrowed_books list
    now,            \* the last reading of datetime.now(), in days
    reply,          \* the last Member call: its arguments, what it found, its message
    func,           \* the number function that was called ("none" before)
    args,           \* its integer arguments
    produced,       \* what it returned or raised; for a generator, what it yielded so far
    generator,      \* the generator object of fibonacci_generator: its frame, if created
    site,           \* the scraper whose browser session is followed
    step,           \* where its run stands
    driver,         \* the browser session: whether it is open, the quit calls, the calls made after quit
    constructed,    \* whether main's name scraper is bound to a scraper object
    extracted,      \* what the extraction returned: "some" records, "nothing", or "none" yet
    exception       \* the exception in flight in the run, if any

run_vars == <<scraper, page, pc, versions_data, result, fault, version_data, csv>>

text_vars == <<text, fn, out, again>>

bank_vars == <<accounts, clock, call, ledger>>

library_vars == <<books, borrowed_books, now, reply>>

function_vars == <<func, args, produced, generator>>

session_vars == <<site, step, driver, constructed, extracted, exception>>

vars == <<run_vars, text_vars, bank_vars, library_vars, function_vars, session_vars>>

None == <<"None">>

\* every driver call of the run answers
NoFault == [kind |-> "none", tag |-> "", at |-> 0, item |-> 0]

(***************************************************************************)
(* Python str primitives                                                    *)
(***************************************************************************)
Digits == {"0", "1", "2", "3", "4", "5", "6", "7", "8", "9"}

Whitespace == {" ", "\t", "\n"}

IsDigit(c) == c \in Digits

IsSpace(c) == c \in Whitespace

UpperMap ==
    ("A" :> "a") @@ ("B" :> "b") @@ ("C" :> "c") @@ ("D" :> "d") @@ ("E" :> "e") @@
    ("F" :> "f") @@ ("G" :> "g") @@ ("H" :> "h") @@ ("I" :> "i") @@ ("J" :> "j") @@
    ("K" :> "k") @@ ("L" :> "l") @@ ("M" :> "m") @@ ("N" :> "n") @@ ("O" :> "o") @@
    ("P" :> "p") @@ ("Q" :> "q") @@ ("R" :> "r") @@ ("S" :> "s") @@ ("T" :> "t") @@
    ("U" :> "u") @@ ("V" :> "v") @@ ("W" :> "w") @@ ("X" :> "x") @@ ("Y" :> "y") @@
    ("Z" :> "z")

LowerChar(c) == IF c \in DOMAIN UpperMap THEN UpperMap[c] ELSE c

\* str.lower()
Lower(s) == [i \in 1..Len(s) |-> LowerChar(s[i])]

MinOf(S) == CHOOSE i \in S : \A j \in S : i <= j

MaxOf(S) == CHOOSE i \in S : \A j \in S : j <= i

\* s.find(sub): the 0-based index of the first occurrence, or -1
Find(s, sub) ==
    LET hits == {i \in 1..(Len(s) - Len(sub) + 1) : SubSeq(s, i, i + Len(sub) - 1) = sub}
    IN  IF hits = {} THEN -1 ELSE MinOf(hits) - 1

\* sub in s
Contains(sub, s) == Find(s, sub) # -1

\* s[k:]
From(s, k) == SubSeq(s, k + 1, Len(s))

\* s[a:b]
Slice(s, a, b) == SubSeq(s, a + 1, IF b < Len(s) THEN b ELSE Len(s))

\* s.strip()
Strip(s) ==
    LET keep == {i \in 1..Len(s) : ~IsSpace(s[i])}
    IN  IF keep = {} THEN <<>> ELSE SubSeq(s, MinOf(keep), MaxOf(keep))

\* s.strip(ch)
StripChar(s, ch) ==
    LET keep == {i \in 1..Len(s) : s[i] # ch}
    IN  IF keep = {} THEN <<>> ELSE SubSeq(s, MinOf(keep), MaxOf(keep))

\* s.replace(old, new): the non-overlapping occurrences, left to right
RECURSIVE Replace(_, _, _)
Replace(s, old, new) ==
    IF Len(s) < Len(old) THEN s
    ELSE IF SubSeq(s, 1, Len(old)) = old
         THEN new \o Replace(From(s, Len(old)), old, new)
         ELSE <<Head(s)>> \o Replace(Tail(s), old, new)

\* s.split(): the maximal runs of non-whitespace characters
RECURSIVE Split(_)
Split(s) ==
    LET keep == {i \in 1..Len(s) : ~IsSpace(s[i])}
    IN  IF keep = {} THEN <<>>
        ELSE LET b == MinOf(keep)
                 stops == {i \in b..Len(s) : IsSpace(s[i])}
                 e == IF stops = {} THEN Len(s) + 1 ELSE MinOf(stops)
             IN  <<SubSeq(s, b, e - 1)>> \o Split(SubSeq(s, e, Len(s)))

\* any(c.isdigit() for c in s)
AnyDigit(s) == \E i \in 1..Len(s) : IsDigit(s[i])

\* s.isdigit()
AllDigits(s) == s # <<>> /\ \A i \in 1..Len(s) : IsDigit(s[i])

DigitValue ==
    ("0" :> 0) @@ ("1" :> 1) @@ ("2" :> 2) @@ ("3" :> 3) @@ ("4" :> 4) @@
    ("5" :> 5) @@ ("6" :> 6) @@ ("7" :> 7) @@ ("8" :> 8) @@ ("9" :> 9)

\* int(s) of a string of digits
RECURSIVE ToInt(_)
ToInt(s) == IF s = <<>> THEN 0 ELSE 10 * ToInt(SubSeq(s, 1, Len(s) - 1)) + DigitValue[s[Len(s)]]

\* ' '.join(words)
RECURSIVE Join(_)
Join(words) ==
    IF words = <<>> THEN <<>>
    ELSE IF Len(words) = 1 THEN words[1]
    ELSE words[1] \o <<" ">> \o Join(Tail(words))

\* s1 + s2 + ... for a list of strings
RECURSIVE Concat(_)
Concat(parts) == IF parts = <<>> THEN <<>> ELSE Head(parts) \o Concat(Tail(parts))

(***************************************************************************)
(* The character loops that collect a version token                         *)
(***************************************************************************)
\* the loop taking digits alone, as the Windows Server loop does: a '.' ends the token
RECURSIVE ScanVersionChars_DigitsOnly(_, _)
ScanVersionChars_DigitsOnly(s, version_chars) ==
    IF s = <<>> THEN version_chars
    ELSE IF IsDigit(Head(s)) THEN ScanVersionChars_DigitsOnly(Tail(s), Append(version_chars, Head(s)))
    ELSE IF version_chars # <<>> THEN version_chars
    ELSE IF IsSpace(Head(s)) THEN ScanVersionChars_DigitsOnly(Tail(s), version_chars)
    ELSE version_chars

\* for char in s: digit or '.' is taken; anything else ends a started token;
\* before the token starts whitespace is skipped and any other character stops
RECURSIVE ScanVersionChars(_, _)
ScanVersionChars(s, version_chars) ==
    IF s = <<>> THEN version_chars
    ELSE IF IsDigit(Head(s)) \/ Head(s) = "." THEN ScanVersionChars(Tail(s), Append(version_chars, Head(s)))
    ELSE IF version_chars # <<>> THEN version_chars
    ELSE IF IsSpace(Head(s)) THEN ScanVersionChars(Tail(s), version_chars)
    ELSE version_chars

\* the loop without the isspace/else branches: every character before the
\* token starts is passed over
RECURSIVE ScanFirstRun(_, _)
ScanFirstRun(s, version_chars) ==
    IF s = <<>> THEN version_chars
    ELSE IF IsDigit(Head(s)) \/ Head(s) = "." THEN ScanFirstRun(Tail(s), Append(version_chars, Head(s)))
    ELSE IF version_chars # <<>> THEN version_chars
    ELSE ScanFirstRun(Tail(s), version_chars)

\* the Windows Server loop: digits only
RECURSIVE ScanDigits(_, _)
ScanDigits(s, version_chars) ==
    IF s = <<>> THEN version_chars
    ELSE IF IsDigit(Head(s)) THEN ScanDigits(Tail(s), Append(version_chars, Head(s)))
    ELSE IF version_chars # <<>> THEN version_chars
    ELSE IF IsSpace(Head(s)) THEN ScanDigits(Tail(s), version_chars)
    ELSE version_chars

(***************************************************************************)
(* SCRAPING_dbf.py: DBF2002Scraper                                          *)
(***************************************************************************)
KwVersion == <<"v", "e", "r", "s", "i", "o", "n">>

KwVSpace == <<"v", " ">>

DBF_KeywordHit(text_lower, keyword) ==
    /\ Contains(keyword, text_lower)
    /\ AnyDigit(Slice(From(text_lower, Find(text_lower, keyword) + Len(keyword)), 0, 10))

DBF_contains_version_text(t) ==
    LET text_lower == Lower(t)
    IN  DBF_KeywordHit(text_lower, KwVersion) \/ DBF_KeywordHit(text_lower, KwVSpace)

\* the method without .strip('.'): the dots around the run stay in the token
DBF_extract_version_string_NoStrip(t) ==
    LET text_lower == Lower(t)
        version_pos == IF Find(text_lower, KwVersion) # -1 THEN Find(text_lower, KwVersion)
                       ELSE Find(text_lower, KwVSpace)
        search_start == IF Contains(KwVersion, text_lower) THEN version_pos + 7 ELSE version_pos + 1
        version_part == Strip(From(t, search_start))
        version_str == ScanVersionChars(version_part, <<>>)
    IN  IF version_pos = -1 THEN None
        ELSE IF version_str # <<>> /\ AnyDigit(version_str) THEN <<"v">> \o version_str
        ELSE None

DBF_extract_version_string(t) ==
    LET text_lower == Lower(t)
        version_pos == IF Find(text_lower, KwVersion) # -1 THEN Find(text_lower, KwVersion)
                       ELSE Find(text_lower, KwVSpace)
        search_start == IF Contains(KwVersion, text_lower) THEN version_pos + 7 ELSE version_pos + 1
        version_part == Strip(From(t, search_start))
        version_str == StripChar(ScanVersionChars(version_part, <<>>), ".")
    IN  IF version_pos = -1 THEN None
        ELSE IF version_str # <<>> /\ AnyDigit(version_str) THEN <<"v">> \o version_str
        ELSE None

Months == {
    <<"j", "a", "n", "u", "a", "r", "y">>,
    <<"f", "e", "b", "r", "u", "a", "r", "y">>,
    <<"m", "a", "r", "c", "h">>,
    <<"a", "p", "r", "i", "l">>,
    <<"m", "a", "y">>,
    <<"j", "u", "n", "e">>,
    <<"j", "u", "l", "y">>,
    <<"a", "u", "g", "u", "s", "t">>,
    <<"s", "e", "p", "t", "e", "m", "b", "e", "r">>,
    <<"o", "c", "t", "o", "b", "e", "r">>,
    <<"n", "o", "v", "e", "m", "b", "e", "r">>,
    <<"d", "e", "c", "e", "m", "b", "e", "r">> }

DateNotFound == <<"D", "a", "t", "e", " ", "n", "o", "t", " ", "f", "o", "u", "n", "d">>

HasMonth(s) == \E month \in Months : Contains(month, Lower(s))

\* the month test on the text as written, not lower-cased
DBF_extract_date_string_NoLower(t) ==
    LET open_paren == Find(t, <<"(">>)
        close_paren == Find(t, <<")">>)
        date_content == Strip(Slice(t, open_paren + 1, close_paren))
    IN  IF /\ open_paren # -1 /\ close_paren # -1 /\ close_paren > open_paren
           /\ \E month \in Months : Contains(month, date_content)
        THEN date_content
        ELSE DateNotFound

\* the method closing the span at the last ')' of the text, not the first
DBF_extract_date_string_LastClose(t) ==
    LET open_paren == Find(t, <<"(">>)
        close_paren == IF Contains(<<")">>, t) THEN MaxOf({k \in 1..Len(t) : t[k] = ")"}) - 1 ELSE -1
        date_content == Strip(Slice(t, open_paren + 1, close_paren))
    IN  IF open_paren # -1 /\ close_paren # -1 /\ close_paren > open_paren /\ HasMonth(date_content)
        THEN date_content
        ELSE DateNotFound

DBF_extract_date_string(t) ==
    LET open_paren == Find(t, <<"(">>)
        close_paren == Find(t, <<")">>)
        date_content == Strip(Slice(t, open_paren + 1, close_paren))
    IN  IF open_paren # -1 /\ close_paren # -1 /\ close_paren > open_paren /\ HasMonth(date_content)
        THEN date_content
        ELSE DateNotFound

DBF_parse_version_text(t, url) ==
    LET version == DBF_extract_version_string(t)
    IN  IF version = None THEN <<>>
        ELSE << [Version |-> version, Date |-> DBF_extract_date_string(t), URL |-> url] >>

(***************************************************************************)
(* 1_wikipedia.py: JavaVersionScraper                                       *)
(***************************************************************************)
Java_patterns == <<
    <<"j", "d", "k">>,
    <<"j", "a", "v", "a", " ", "s", "e">>,
    <<"j", "a", "v", "a", " ">>,
    <<"j", "2", "s", "e">>,
    <<"j", "2", "e", "e">> >>

\* the token one pattern gives, or <<>> when the loop goes on to the next pattern
PatternToken(t, pattern) ==
    LET text_lower == Lower(t)
        pattern_pos == Find(text_lower, pattern)
        after_pattern == Strip(From(t, pattern_pos + Len(pattern)))
        version_str == StripChar(ScanVersionChars(after_pattern, <<>>), ".")
    IN  IF Contains(pattern, text_lower) /\ version_str # <<>> /\ AnyDigit(version_str)
        THEN version_str
        ELSE <<>>

\* the loop ending at the first pattern that occurs, token or not
RECURSIVE PatternLoop_FirstOccurring(_, _)
PatternLoop_FirstOccurring(t, patterns) ==
    IF patterns = <<>> THEN <<>>
    ELSE IF Contains(Head(patterns), Lower(t)) THEN PatternToken(t, Head(patterns))
    ELSE PatternLoop_FirstOccurring(t, Tail(patterns))

\* for pattern in patterns: the first pattern that gives a token returns it
RECURSIVE PatternLoop(_, _)
PatternLoop(t, patterns) ==
    IF patterns = <<>> THEN <<>>
    ELSE IF PatternToken(t, Head(patterns)) # <<>> THEN PatternToken(t, Head(patterns))
    ELSE PatternLoop(t, Tail(patterns))

Java_extract_version_number(t) ==
    LET by_pattern == PatternLoop(t, Java_patterns)
        version_str == StripChar(ScanFirstRun(t, <<>>), ".")
    IN  IF by_pattern # <<>> THEN by_pattern
        ELSE IF version_str # <<>> /\ AnyDigit(version_str) THEN version_str
        ELSE None

NL == <<"\n">>

SP == <<" ">>

SP2 == <<" ", " ">>

Java_extract_version_name(t) == Strip(Replace(Replace(t, NL, SP), SP2, SP))

(***************************************************************************)
(* The citation loop of format_date (Java) and clean_text (Oracle Linux):   *)
(*   while '[' in text and ']' in text:                                     *)
(*       start = text.find('['); end = text.find(']') + 1                   *)
(*       text = text[:start] + text[end:]                                   *)
(* When end <= start the assignment removes nothing (the text keeps both    *)
(* brackets and does not get shorter), so the loop never exits: the value   *)
(* is then NonTerminating, the call that does not return.                   *)
(***************************************************************************)
NonTerminating == <<"NonTerminating">>

RECURSIVE StripCitations(_)
StripCitations(t) ==
    LET start == Find(t, <<"[">>)
        end == Find(t, <<"]">>) + 1
    IN  IF ~(Contains(<<"[">>, t) /\ Contains(<<"]">>, t)) THEN t
        ELSE IF end <= start THEN NonTerminating
        ELSE StripCitations(Slice(t, 0, start) \o From(t, end))

Java_format_date(date_text) ==
    LET cleaned == StripCitations(Strip(Replace(Replace(date_text, NL, SP), SP2, SP)))
    IN  IF cleaned = NonTerminating THEN NonTerminating ELSE Strip(cleaned)

(***************************************************************************)
(* 2_dotnet.py: DotNetVersionScraper                                        *)
(***************************************************************************)
DotNet_patterns == <<
    <<".", "n", "e", "t">>,
    <<"d", "o", "t", "n", "e", "t">>,
    <<"n", "e", "t", " ">> >>

\* for word in words: the first word with a digit and a '.' whose run is not empty
RECURSIVE DotNet_StandaloneWord(_)
DotNet_StandaloneWord(words) ==
    IF words = <<>> THEN None
    ELSE LET word == Head(words)
             version_str == StripChar(ScanFirstRun(word, <<>>), ".")
         IN  IF AnyDigit(word) /\ Contains(<<".">>, word) /\ version_str # <<>>
             THEN version_str
             ELSE DotNet_StandaloneWord(Tail(words))

DotNet_extract_dotnet_version(t) ==
    IF t = <<>> THEN None
    ELSE IF PatternLoop(t, DotNet_patterns) # <<>> THEN PatternLoop(t, DotNet_patterns)
    ELSE DotNet_StandaloneWord(Split(t))

\* while '  ' in text: text = text.replace('  ', ' ')
RECURSIVE CollapseSpaces(_)
CollapseSpaces(t) == IF Contains(SP2, t) THEN CollapseSpaces(Replace(t, SP2, SP)) ELSE t

DotNet_clean_text(t) ==
    IF t = <<>> THEN <<>>
    ELSE CollapseSpaces(Strip(Replace(Replace(t, NL, SP), SP2, SP)))

(***************************************************************************)
(* 3_microsoft.py: WindowsServerScraper                                     *)
(***************************************************************************)
YearMin == 2000

YearMax == 2030

KwWindowsServer == <<"w", "i", "n", "d", "o", "w", "s", " ", "s", "e", "r", "v", "e", "r">>

WindowsServerPrefix == <<"W", "i", "n", "d", "o", "w", "s", " ", "S", "e", "r", "v", "e", "r", " ">>

WS_version_keywords == <<
    <<"v", "e", "r", "s", "i", "o", "n">>,
    <<"b", "u", "i", "l", "d">>,
    <<"v", " ">> >>

server_versions == <<
    <<"2", "0", "2", "2">>, <<"2", "0", "1", "9">>, <<"2", "0", "1", "6">>,
    <<"2", "0", "1", "2">>, <<"2", "0", "0", "8">>, <<"2", "0", "0", "3">> >>

WS_clean_text(t) ==
    IF t = <<>> THEN <<>>
    ELSE CollapseSpaces(Strip(Replace(Replace(t, NL, SP), SP2, SP)))

\* the year loop taking any 4-digit word, its value not held against the range
RECURSIVE WS_YearWord_NoRange(_)
WS_YearWord_NoRange(words) ==
    IF words = <<>> THEN <<>>
    ELSE IF AllDigits(Head(words)) /\ Len(Head(words)) = 4
         THEN Head(words)
         ELSE WS_YearWord_NoRange(Tail(words))

\* for word in words: the first 4-digit word whose value is a year of the range
RECURSIVE WS_YearWord(_)
WS_YearWord(words) ==
    IF words = <<>> THEN <<>>
    ELSE IF /\ AllDigits(Head(words))
            /\ Len(Head(words)) = 4
            /\ YearMin <= ToInt(Head(words))
            /\ ToInt(Head(words)) <= YearMax
         THEN Head(words)
         ELSE WS_YearWord(Tail(words))

\* for keyword in version_keywords: the first keyword followed by digits
RECURSIVE WS_KeywordLoop(_, _)
WS_KeywordLoop(t, keywords) ==
    IF keywords = <<>> THEN None
    ELSE LET text_lower == Lower(t)
             keyword_pos == Find(text_lower, Head(keywords))
             after_keyword == Strip(From(t, keyword_pos + Len(Head(keywords))))
             version_str == ScanDigits(after_keyword, <<>>)
         IN  IF Contains(Head(keywords), text_lower) /\ version_str # <<>>
             THEN version_str
             ELSE WS_KeywordLoop(t, Tail(keywords))

WS_extract_version_number(t) ==
    IF WS_YearWord(Split(t)) # <<>> THEN WS_YearWord(Split(t))
    ELSE WS_KeywordLoop(t, WS_version_keywords)

\* for version in server_versions: if version in text
RECURSIVE WS_ServerVersionLoop(_, _)
WS_ServerVersionLoop(t, versions) ==
    IF versions = <<>> THEN None
    ELSE IF Contains(Head(versions), t) THEN <<WindowsServerPrefix \o Head(versions), Head(versions)>>
    ELSE WS_ServerVersionLoop(t, Tail(versions))

\* (version_name, version_number) or None
WS_extract_windows_server_version(t) ==
    IF t = <<>> THEN None
    ELSE IF Contains(KwWindowsServer, Lower(t)) /\ WS_extract_version_number(t) # None
         THEN <<WS_clean_text(t), WS_extract_version_number(t)>>
         ELSE WS_ServerVersionLoop(t, server_versions)

\* the method naming the record by the fragment as it stands
WS_parse_windows_server_text_RawName(t, url, scraped_date) ==
    LET version_info == WS_extract_windows_server_version(t)
    IN  IF version_info = None THEN <<>>
        ELSE << [version_name |-> t, version |-> version_info[2],
                 url |-> url, scraped_date |-> scraped_date] >>

WS_parse_windows_server_text(t, url, scraped_date) ==
    LET version_info == WS_extract_windows_server_version(t)
    IN  IF version_info = None THEN <<>>
        ELSE << [version_name |-> version_info[1], version |-> version_info[2],
                 url |-> url, scraped_date |-> scraped_date] >>

(***************************************************************************)
(* 4_oracle.py: OracleLinuxScraper                                          *)
(***************************************************************************)
KwOracleLinux == <<"o", "r", "a", "c", "l", "e", " ", "l", "i", "n", "u", "x">>

KwOL == <<"o", "l">>

OL_version_patterns == <<
    <<"r", "e", "l", "e", "a", "s", "e", " ">>,
    <<"v", "e", "r", "s", "i", "o", "n", " ">>,
    <<"v", " ">>,
    <<"r">>,
    <<"u">> >>

OL_clean_text(t) ==
    IF t = <<>> THEN <<>>
    ELSE StripCitations(CollapseSpaces(Strip(Replace(Replace(t, NL, SP), SP2, SP))))

\* for word in words: a dotted word, or a word of the form OL<digit>...
RECURSIVE OL_WordLoop(_)
OL_WordLoop(words) ==
    IF words = <<>> THEN None
    ELSE LET word == Head(words)
             dotted == StripChar(ScanFirstRun(word, <<>>), ".")
             rest == From(word, 2)
             after_ol == StripChar(ScanFirstRun(rest, <<>>), ".")
         IN  IF Contains(<<".">>, word) /\ AnyDigit(word) /\ dotted # <<>> THEN dotted
             ELSE IF /\ Len(word) > 2
                     /\ SubSeq(Lower(word), 1, 2) = KwOL
                     /\ IsDigit(rest[1])
                     /\ after_ol # <<>>
                  THEN after_ol
                  ELSE OL_WordLoop(Tail(words))

OL_extract_version_number(t) == OL_WordLoop(Split(t))

\* for pattern in version_patterns: the first pattern whose tail holds a number
RECURSIVE OL_PatternLoop(_, _)
OL_PatternLoop(t, patterns) ==
    IF patterns = <<>> THEN None
    ELSE LET text_lower == Lower(t)
             pattern_pos == Find(text_lower, Head(patterns))
             after_pattern == Strip(From(t, pattern_pos + Len(Head(patterns))))
         IN  IF Contains(Head(patterns), text_lower) /\ OL_extract_version_number(after_pattern) # None
             THEN IF OL_clean_text(t) = NonTerminating THEN NonTerminating
                  ELSE <<OL_clean_text(t), OL_extract_version_number(after_pattern)>>
             ELSE OL_PatternLoop(t, Tail(patterns))

\* (version_name, version_number), None, or NonTerminating when clean_text loops
OL_extract_oracle_linux_version(t) ==
    IF t = <<>> THEN None
    ELSE IF Contains(KwOracleLinux, Lower(t)) \/ Contains(KwOL, Lower(t))
         THEN \* clean_text runs first, whether or not a number is found
              IF OL_clean_text(t) = NonTerminating THEN NonTerminating
              ELSE IF OL_extract_version_number(t) # None
                   THEN <<OL_clean_text(t), OL_extract_version_number(t)>>
                   ELSE OL_PatternLoop(t, OL_version_patterns)
         ELSE OL_PatternLoop(t, OL_version_patterns)

(***************************************************************************)
(* The loaded document.  An element is [tag, first, cells]: a table row     *)
(* ("tr") holds the texts of its td cells and first says whether it is row  *)
(* 0 of its table; a list ("ul", "ol") holds the texts of its li items; any *)
(* other element holds its one text in cells.  The driver's                 *)
(* find_elements(By.TAG_NAME, tag) gives the elements of a tag in document  *)
(* order.                                                                   *)
(***************************************************************************)
Url == "url"

ScrapedDate == "scraped_date"

Row(first, cells) == [tag |-> "tr", first |-> first, cells |-> cells]

Elem(tag, t) == [tag |-> tag, first |-> FALSE, cells |-> <<t>>]

\* driver.find_elements(By.TAG_NAME, tag)
ByTag(p, tag) == SelectSeq(p, LAMBDA e : e.tag = tag)

\* ' '.join(words) with a newline between the items
RECURSIVE JoinLines(_)
JoinLines(items) ==
    IF items = <<>> THEN <<>>
    ELSE IF Len(items) = 1 THEN items[1]
    ELSE items[1] \o NL \o JoinLines(Tail(items))

\* element.text: the cells of a row on one line, the items of a list one per line
ElemText(e) == IF e.tag \in {"ul", "ol"} THEN JoinLines(e.cells) ELSE Join(e.cells)

\* for each list of the tag, item.text.strip() of each of its li items
ListItems(p, tag) ==
    LET lists == ByTag(p, tag)
    IN  Concat([i \in 1..Len(lists) |-> [k \in 1..Len(lists[i].cells) |-> Strip(lists[i].cells[k])]])

\* [element.text.strip() for element in elems]
Texts(elems) == [i \in 1..Len(elems) |-> Strip(ElemText(elems[i]))]

\* row_idx == 0: the row opens a table
RowIdxZero(rows, i) == i = 1 \/ rows[i].first

\* the 1-based number of the table that holds row i
TableNo(rows, i) == Cardinality({j \in 1..i : RowIdxZero(rows, j)})

\* ' '.join([cell.text.strip() for cell in cells if cell.text.strip()])
AllText(cells) ==
    Join(SelectSeq([i \in 1..Len(cells) |-> Strip(cells[i])], LAMBDA c : c # <<>>))

\* text.split('\n')
RECURSIVE SplitLines(_)
SplitLines(t) ==
    IF Find(t, NL) = -1 THEN <<t>>
    ELSE <<Slice(t, 0, Find(t, NL))>> \o SplitLines(From(t, Find(t, NL) + 1))

\* the loop with the stored record overwritten by a later one of its version
RECURSIVE RemoveDuplicates_KeepLast(_, _, _)
RemoveDuplicates_KeepLast(items, unique_versions, seen_versions) ==
    IF items = <<>> THEN unique_versions
    ELSE IF Head(items).version \notin seen_versions
         THEN RemoveDuplicates_KeepLast(Tail(items), Append(unique_versions, Head(items)),
                                        seen_versions \cup {Head(items).version})
         ELSE RemoveDuplicates_KeepLast(
                  Tail(items),
                  [k \in 1..Len(unique_versions) |->
                      IF unique_versions[k].version = Head(items).version THEN Head(items)
                      ELSE unique_versions[k]],
                  seen_versions)

\* the deduplication loop on the key 'version':
\*   for item in versions_data: if item['version'] not in seen_versions: ...
RECURSIVE RemoveDuplicates(_, _, _)
RemoveDuplicates(items, unique_versions, seen_versions) ==
    IF items = <<>> THEN unique_versions
    ELSE IF Head(items).version \notin seen_versions
         THEN RemoveDuplicates(Tail(items), Append(unique_versions, Head(items)),
                               seen_versions \cup {Head(items).version})
         ELSE RemoveDuplicates(Tail(items), unique_versions, seen_versions)

(***************************************************************************)
(* SCRAPING_dbf.py: extract_all_versions                                    *)
(***************************************************************************)
\* text = item.text.strip(); if text and contains_version_text(text): parse
DBF_Candidate(t, url) ==
    IF t # <<>> /\ DBF_contains_version_text(t) THEN DBF_parse_version_text(t, url) ELSE <<>>

\* the li loop: every parsed record is appended
DBF_ListItems(texts, url) == Concat([i \in 1..Len(texts) |-> DBF_Candidate(texts[i], url)])

\* the p and the div loop: a parsed record is appended unless its Version is there
RECURSIVE DBF_AppendNew(_, _, _)
DBF_AppendNew(versions, texts, url) ==
    IF texts = <<>> THEN versions
    ELSE LET version_info == DBF_Candidate(Head(texts), url)
         IN  IF /\ version_info # <<>>
                /\ ~\E j \in 1..Len(versions) : versions[j].Version = version_info[1].Version
             THEN DBF_AppendNew(Append(versions, version_info[1]), Tail(texts), url)
             ELSE DBF_AppendNew(versions, Tail(texts), url)

DBF_versions_data(p, url) ==
    DBF_AppendNew(
        DBF_AppendNew(DBF_ListItems(Texts(ByTag(p, "li")), url), Texts(ByTag(p, "p")), url),
        Texts(ByTag(p, "div")), url)

\* the loop without the membership test: every item is kept
RECURSIVE DBF_RemoveDuplicates_KeepAll(_, _, _)
DBF_RemoveDuplicates_KeepAll(items, unique_versions, seen_versions) ==
    IF items = <<>> THEN unique_versions
    ELSE DBF_RemoveDuplicates_KeepAll(Tail(items), Append(unique_versions, Head(items)),
                                      seen_versions \cup {Head(items).Version})

RECURSIVE DBF_RemoveDuplicates(_, _, _)
DBF_RemoveDuplicates(items, unique_versions, seen_versions) ==
    IF items = <<>> THEN unique_versions
    ELSE IF Head(items).Version \notin seen_versions
         THEN DBF_RemoveDuplicates(Tail(items), Append(unique_versions, Head(items)),
                                   seen_versions \cup {Head(items).Version})
         ELSE DBF_RemoveDuplicates(Tail(items), unique_versions, seen_versions)

DBF_extract_all_versions(p, url) == DBF_RemoveDuplicates(DBF_versions_data(p, url), <<>>, {})

(***************************************************************************)
(* 1_wikipedia.py: extract_java_versions                                    *)
(***************************************************************************)
\* format_date is called once a version number is found: its loop may never exit
Java_parse_table_row_Hangs(cells) ==
    /\ Java_extract_version_number(Strip(cells[1])) # None
    /\ Java_format_date(Strip(cells[2])) = NonTerminating

\* a dict, or None as <<>>
Java_parse_table_row(cells, url, scraped_date) ==
    LET version_text == Strip(cells[1])
        version_name == Java_extract_version_name(version_text)
        version_number == Java_extract_version_number(version_text)
    IN  IF version_number = None THEN <<>>
        ELSE << [version_name |-> version_name, version |-> version_number,
                 url |-> url, scraped_date |-> scraped_date] >>

\* extract_from_table over the tables in turn: row 0 of a table is skipped,
\* a row needs at least 3 cells
Java_RowResult(rows, i, url, scraped_date) ==
    IF ~RowIdxZero(rows, i) /\ Len(rows[i].cells) >= 3
    THEN Java_parse_table_row(rows[i].cells, url, scraped_date)
    ELSE <<>>

Java_Hangs(p) ==
    LET rows == ByTag(p, "tr")
    IN  \E i \in 1..Len(rows) :
            /\ ~RowIdxZero(rows, i) /\ Len(rows[i].cells) >= 3
            /\ Java_parse_table_row_Hangs(rows[i].cells)

Java_versions_data(p, url, scraped_date) ==
    LET rows == ByTag(p, "tr")
    IN  Concat([i \in 1..Len(rows) |-> Java_RowResult(rows, i, url, scraped_date)])

Java_extract_java_versions(p, url, scraped_date) ==
    RemoveDuplicates(Java_versions_data(p, url, scraped_date), <<>>, {})

(***************************************************************************)
(* The fallback tables                                                      *)
(***************************************************************************)
Rec(name, version, url, scraped_date) ==
    [version_name |-> name, version |-> version, url |-> url, scraped_date |-> scraped_date]

DotNet_get_fallback_dotnet_versions(url, scraped_date) == <<
    Rec(<<".", "N", "E", "T", " ", "8", ".", "0", " ", "R", "u", "n", "t", "i", "m", "e">>, <<"8", ".", "0">>, url, scraped_date),
    Rec(<<".", "N", "E", "T", " ", "8", ".", "0", " ", "S", "D", "K">>, <<"8", ".", "0">>, url, scraped_date),
    Rec(<<"A", "S", "P", ".", "N", "E", "T", " ", "C", "o", "r", "e", " ", "R", "u", "n", "t", "i", "m", "e", " ", "8", ".", "0">>, <<"8", ".", "0">>, url, scraped_date),
    Rec(<<".", "N", "E", "T", " ", "8", ".", "0", " ", "W", "i", "n", "d", "o", "w", "s", " ", "D", "e", "s", "k", "t", "o", "p", " ", "R", "u", "n", "t", "i", "m", "e">>, <<"8", ".", "0">>, url, scraped_date),
    Rec(<<".", "N", "E", "T", " ", "8", ".", "0", ".", "1", " ", "R", "u", "n", "t", "i", "m", "e">>, <<"8", ".", "0", ".", "1">>, url, scraped_date),
    Rec(<<".", "N", "E", "T", " ", "8", ".", "0", ".", "1", " ", "S", "D", "K">>, <<"8", ".", "0", ".", "1">>, url, scraped_date) >>

WS_get_fallback_windows_server_versions(url, scraped_date) == <<
    Rec(<<"W", "i", "n", "d", "o", "w", "s", " ", "S", "e", "r", "v", "e", "r", " ", "2", "0", "2", "2">>, <<"2", "0", "2", "2">>, url, scraped_date),
    Rec(<<"W", "i", "n", "d", "o", "w", "s", " ", "S", "e", "r", "v", "e", "r", " ", "2", "0", "1", "9">>, <<"2", "0", "1", "9">>, url, scraped_date),
    Rec(<<"W", "i", "n", "d", "o", "w", "s", " ", "S", "e", "r", "v", "e", "r", " ", "2", "0", "1", "6">>, <<"2", "0", "1", "6">>, url, scraped_date),
    Rec(<<"W", "i", "n", "d", "o", "w", "s", " ", "S", "e", "r", "v", "e", "r", " ", "2", "0", "1", "2", " ", "R", "2">>, <<"2", "0", "1", "2">>, url, scraped_date),
    Rec(<<"W", "i", "n", "d", "o", "w", "s", " ", "S", "e", "r", "v", "e", "r", " ", "2", "0", "1", "2">>, <<"2", "0", "1", "2">>, url, scraped_date),
    Rec(<<"W", "i", "n", "d", "o", "w", "s", " ", "S", "e", "r", "v", "e", "r", " ", "2", "0", "0", "8", " ", "R", "2">>, <<"2", "0", "0", "8">>, url, scraped_date),
    Rec(<<"W", "i", "n", "d", "o", "w", "s", " ", "S", "e", "r", "v", "e", "r", " ", "2", "0", "0", "8">>, <<"2", "0", "0", "8">>, url, scraped_date),
    Rec(<<"W", "i", "n", "d", "o", "w", "s", " ", "S", "e", "r", "v", "e", "r", " ", "2", "0", "0", "3">>, <<"2", "0", "0", "3">>, url, scraped_date) >>

OL_get_fallback_oracle_linux_versions(url, scraped_date) == <<
    Rec(<<"O", "r", "a", "c", "l", "e", " ", "L", "i", "n", "u", "x", " ", "9">>, <<"9">>, url, scraped_date),
    Rec(<<"O", "r", "a", "c", "l", "e", " ", "L", "i", "n", "u", "x", " ", "8">>, <<"8">>, url, scraped_date),
    Rec(<<"O", "r", "a", "c", "l", "e", " ", "L", "i", "n", "u", "x", " ", "7">>, <<"7">>, url, scraped_date),
    Rec(<<"O", "r", "a", "c", "l", "e", " ", "L", "i", "n", "u", "x", " ", "6">>, <<"6">>, url, scraped_date),
    Rec(<<"O", "r", "a", "c", "l", "e", " ", "L", "i", "n", "u", "x", " ", "5">>, <<"5">>, url, scraped_date),
    Rec(<<"O", "r", "a", "c", "l", "e", " ", "L", "i", "n", "u", "x", " ", "9", ".", "2">>, <<"9", ".", "2">>, url, scraped_date),
    Rec(<<"O", "r", "a", "c", "l", "e", " ", "L", "i", "n", "u", "x", " ", "8", ".", "8">>, <<"8", ".", "8">>, url, scraped_date),
    Rec(<<"O", "r", "a", "c", "l", "e", " ", "L", "i", "n", "u", "x", " ", "7", ".", "9">>, <<"7", ".", "9">>, url, scraped_date) >>

(***************************************************************************)
(* 2_dotnet.py: extract_dotnet_versions                                     *)
(***************************************************************************)
DotNet_parse_dotnet_text(t, url, scraped_date) ==
    IF DotNet_extract_dotnet_version(t) = None THEN <<>>
    ELSE << Rec(DotNet_clean_text(t), DotNet_extract_dotnet_version(t), url, scraped_date) >>

DotNet_parse_table_row(cells, url, scraped_date) ==
    IF AllText(cells) = <<>> THEN <<>>
    ELSE DotNet_parse_dotnet_text(AllText(cells), url, scraped_date)

\* body.text: the text of the elements, one per line
BodyText(p) == JoinLines([i \in 1..Len(p) |-> ElemText(p[i])])

\* extract_from_page_content: the non-empty stripped lines of the body
DotNet_Lines(p) ==
    SelectSeq([i \in 1..Len(SplitLines(BodyText(p))) |-> Strip(SplitLines(BodyText(p))[i])],
              LAMBDA line : line # <<>>)

DotNet_extract_from_page_content(p, url, scraped_date) ==
    Concat([i \in 1..Len(DotNet_Lines(p)) |-> DotNet_parse_dotnet_text(DotNet_Lines(p)[i], url, scraped_date)])

MaxTables == 3

\* for table in tables[:3]: for row in rows: if cells: parse_table_row
DotNet_extract_from_tables(p, url, scraped_date) ==
    LET rows == ByTag(p, "tr")
    IN  Concat([i \in 1..Len(rows) |->
                  IF TableNo(rows, i) <= MaxTables /\ rows[i].cells # <<>>
                  THEN DotNet_parse_table_row(rows[i].cells, url, scraped_date)
                  ELSE <<>>])

\* the records of strategy 1, then of strategy 2 when strategy 1 found any
DotNet_versions_data(p, url, scraped_date) ==
    LET page_data == DotNet_extract_from_page_content(p, url, scraped_date)
    IN  IF page_data # <<>> THEN page_data \o DotNet_extract_from_tables(p, url, scraped_date)
        ELSE page_data

\* the method without the substitution of the fallback table
DotNet_extract_dotnet_versions_NoFallback(p, url, scraped_date) ==
    RemoveDuplicates(DotNet_versions_data(p, url, scraped_date), <<>>, {})

DotNet_extract_dotnet_versions(p, url, scraped_date) ==
    LET found == DotNet_versions_data(p, url, scraped_date)
    IN  RemoveDuplicates(IF found = <<>> THEN DotNet_get_fallback_dotnet_versions(url, scraped_date)
                         ELSE found, <<>>, {})

(***************************************************************************)
(* 3_microsoft.py: extract_windows_server_versions                          *)
(***************************************************************************)
\* the stripped lines of the non-empty elements of one content tag
WS_ContentLines(elems) ==
    LET texts == SelectSeq(Texts(elems), LAMBDA t : t # <<>>)
        lines == Concat([i \in 1..Len(texts) |-> SplitLines(texts[i])])
    IN  [i \in 1..Len(lines) |-> Strip(lines[i])]

\* the texts handed to extract_windows_server_version, in the order of the scan:
\* table rows, ul items, ol items, then p, div, section and article lines
WS_ScanTexts(p) ==
    LET rows == SelectSeq(ByTag(p, "tr"), LAMBDA r : r.cells # <<>>)
    IN  SelectSeq([i \in 1..Len(rows) |-> AllText(rows[i].cells)], LAMBDA t : t # <<>>)
        \o ListItems(p, "ul") \o ListItems(p, "ol")
        \o WS_ContentLines(ByTag(p, "p")) \o WS_ContentLines(ByTag(p, "div"))
        \o WS_ContentLines(ByTag(p, "section")) \o WS_ContentLines(ByTag(p, "article"))

WS_versions_data(p, url, scraped_date) ==
    Concat([i \in 1..Len(WS_ScanTexts(p)) |->
              WS_parse_windows_server_text(WS_ScanTexts(p)[i], url, scraped_date)])

WS_extract_windows_server_versions(p, url, scraped_date) ==
    LET found == WS_versions_data(p, url, scraped_date)
    IN  RemoveDuplicates(IF found = <<>> THEN WS_get_fallback_windows_server_versions(url, scraped_date)
                         ELSE found, <<>>, {})

(***************************************************************************)
(* 4_oracle.py: extract_oracle_linux_versions                               *)
(***************************************************************************)
OL_version_keywords == <<
    <<"r", "e", "l", "e", "a", "s", "e">>, <<"v", "e", "r", "s", "i", "o", "n">>, <<"o", "l">>, <<"o", "r", "a", "c", "l", "e", " ", "l", "i", "n", "u", "x">>, <<"r">>, <<"u">> >>

OL_contains_version_info(t) ==
    \E k \in 1..Len(OL_version_keywords) : Contains(OL_version_keywords[k], Lower(t))

\* the stripped lines of the element that follows element i (its
\* following-sibling::*[1]) when that element is a p, a div or a ul
OL_SiblingLines(p, i) ==
    IF i + 1 > Len(p) THEN <<>>
    ELSE IF p[i + 1].tag \in {"p", "div", "ul"}
         THEN LET lines == SplitLines(Strip(ElemText(p[i + 1])))
              IN  [k \in 1..Len(lines) |-> Strip(lines[k])]
    ELSE <<>>

\* the headings of one tag with what follows each: the heading's text when it
\* passes contains_version_info, then the lines of its next sibling
OL_HeadingTexts(p, tag) ==
    Concat([i \in 1..Len(p) |->
              IF p[i].tag = tag /\ OL_contains_version_info(Strip(ElemText(p[i])))
              THEN <<Strip(ElemText(p[i]))>> \o OL_SiblingLines(p, i)
              ELSE <<>>])

\* the texts handed to extract_oracle_linux_version, in the order of the scan:
\* table rows of at least 2 cells, ul items, ol items, then h2, h3 and h4 sections
OL_ScanTexts(p) ==
    LET rows == SelectSeq(ByTag(p, "tr"), LAMBDA r : Len(r.cells) >= 2)
    IN  SelectSeq([i \in 1..Len(rows) |-> AllText(rows[i].cells)], LAMBDA t : t # <<>>)
        \o ListItems(p, "ul") \o ListItems(p, "ol")
        \o OL_HeadingTexts(p, "h2") \o OL_HeadingTexts(p, "h3") \o OL_HeadingTexts(p, "h4")

OL_parse_oracle_linux_text(t, url, scraped_date) ==
    LET version_info == OL_extract_oracle_linux_version(t)
    IN  IF version_info = None THEN <<>>
        ELSE << Rec(version_info[1], version_info[2], url, scraped_date) >>

\* a text of the scan on which clean_text never returns
OL_Hangs(p) ==
    \E i \in 1..Len(OL_ScanTexts(p)) : OL_extract_oracle_linux_version(OL_ScanTexts(p)[i]) = NonTerminating

OL_versions_data(p, url, scraped_date) ==
    Concat([i \in 1..Len(OL_ScanTexts(p)) |->
              OL_parse_oracle_linux_text(OL_ScanTexts(p)[i], url, scraped_date)])

OL_extract_oracle_linux_versions(p, url, scraped_date) ==
    LET found == OL_versions_data(p, url, scraped_date)
    IN  RemoveDuplicates(IF found = <<>> THEN OL_get_fallback_oracle_linux_versions(url, scraped_date)
                         ELSE found, <<>>, {})

(***************************************************************************)
(* The documents of the model: every sequence of at most MaxElements        *)
(* elements drawn from the scraper's pool                                   *)
(***************************************************************************)
MaxElements == 3

List(tag, items) == [tag |-> tag, first |-> FALSE, cells |-> items]

DBF_Pool == {
    Elem("li", <<"V", "e", "r", "s", "i", "o", "n", " ", "5", ".", "1", " ", "(", "A", "u", "g", "u", "s", "t", " ", "2", "6", ",", " ", "2", "0", "1", "3", ")">>),
    Elem("li", <<"V", "e", "r", "s", "i", "o", "n", " ", "5", ".", "1", " ", "d", "u", "p", "l", "i", "c", "a", "t", "e">>),
    Elem("li", <<"n", "o", " ", "v", "e", "r", "s", "i", "o", "n", " ", "h", "e", "r", "e">>),
    Elem("p", <<"V", "e", "r", "s", "i", "o", "n", " ", "5", ".", "1", " ", "d", "u", "p", "l", "i", "c", "a", "t", "e">>),
    Elem("p", <<"v", " ", "4", ".", "9", "7", " ", "(", "M", "a", "r", "c", "h", " ", "1", "3", ",", " ", "2", "0", "1", "3", ")">>),
    Elem("div", <<"V", "e", "r", "s", "i", "o", "n", " ", "4", ".", "9", "7", " ", "r", "e", "l", "e", "a", "s", "e", "d">>),
    Elem("div", <<" ", " ">>) }

Java_Pool == {
    Row(TRUE, <<<<"V", "e", "r", "s", "i", "o", "n">>, <<"R", "e", "l", "e", "a", "s", "e", " ", "d", "a", "t", "e">>, <<"N", "o", "t", "e", "s">>>>),
    Row(FALSE, <<<<"J", "D", "K", " ", "1", ".", "0">>, <<"J", "a", "n", "u", "a", "r", "y", " ", "2", "3", ",", " ", "1", "9", "9", "6", "[", "1", "]">>, <<"O", "a", "k">>>>),
    Row(FALSE, <<<<"J", "a", "v", "a", " ", "S", "E", " ", "8">>, <<"M", "a", "r", "c", "h", " ", "1", "8", ",", " ", "2", "0", "1", "4">>, <<"L", "T", "S">>>>),
    Row(FALSE, <<<<"J", "D", "K", " ", "1", ".", "0", " ", "u", "p", "d", "a", "t", "e">>, <<"1", "9", "9", "6">>, <<"x">>>>),
    Row(FALSE, <<<<"J", "2", "S", "E", " ", "1", ".", "2">>, <<"1", "9", "9", "8">>>>),
    Row(FALSE, <<<<"J", "a", "v", "a", " ", "S", "E", " ", "9">>, <<"]", "[">>, <<"x">>>>) }

DotNet_Pool == {
    Elem("p", <<".", "N", "E", "T", " ", "8", ".", "0", ".", "1", " ", "S", "D", "K">>),
    Elem("p", <<"D", "o", "w", "n", "l", "o", "a", "d", " ", "n", "o", "w">>),
    Elem("div", <<"A", "S", "P", ".", "N", "E", "T", " ", "C", "o", "r", "e", " ", "8", ".", "0", ".", "1", "\n", "n", "o", " ", "v", "e", "r", "s", "i", "o", "n">>),
    Row(TRUE, <<<<"8", ".", "0", ".", "2">>, <<"R", "u", "n", "t", "i", "m", "e">>>>),
    Row(TRUE, <<<<".", "N", "E", "T", " ", "9", ".", "0", " ", "p", "r", "e", "v", "i", "e", "w">>, <<>>>>),
    Row(FALSE, <<<<" ">>>>) }

WS_Pool == {
    Row(TRUE, <<<<"W", "i", "n", "d", "o", "w", "s", " ", "S", "e", "r", "v", "e", "r", " ", "2", "0", "2", "2">>, <<"s", "u", "p", "p", "o", "r", "t", "e", "d">>>>),
    List("ul", <<<<"W", "i", "n", "d", "o", "w", "s", " ", "S", "e", "r", "v", "e", "r", " ", "2", "0", "1", "9">>, <<"W", "i", "n", "d", "o", "w", "s", " ", "S", "e", "r", "v", "e", "r", " ", "2", "0", "2", "2", " ", "D", "a", "t", "a", "c", "e", "n", "t", "e", "r">>>>),
    List("ol", <<<<"W", "i", "n", "d", "o", "w", "s", " ", "S", "e", "r", "v", "e", "r", " ", "2", "0", "1", "9", " ", "R", "2">>>>),
    Elem("p", <<"B", "u", "i", "l", "d", " ", "2", "0", "3", "4", "8", " ", "o", "f", " ", "W", "i", "n", "d", "o", "w", "s", " ", "S", "e", "r", "v", "e", "r", "\n", "n", "o", "t", "h", "i", "n", "g", " ", "h", "e", "r", "e">>),
    Elem("div", <<"R", "e", "l", "e", "a", "s", "e", "d", " ", "i", "n", " ", "2", "0", "1", "6">>),
    Elem("section", <<"n", "o", " ", "d", "a", "t", "a">>) }

OL_Pool == {
    Row(TRUE, <<<<"O", "r", "a", "c", "l", "e", " ", "L", "i", "n", "u", "x", " ", "9", ".", "2">>, <<"2", "0", "2", "3">>>>),
    Row(FALSE, <<<<"O", "L", "8">>>>),
    List("ul", <<<<"O", "L", "8">>, <<"O", "r", "a", "c", "l", "e", " ", "L", "i", "n", "u", "x", " ", "9", ".", "2", " ", "[", "1", "]">>>>),
    Elem("h2", <<"R", "e", "l", "e", "a", "s", "e", " ", "7", ".", "9">>),
    Elem("p", <<"U", "p", "d", "a", "t", "e", " ", "7", ".", "9", "\n", "p", "l", "a", "i", "n">>),
    Elem("h3", <<"S", "o", "l", "a", "r", "i", "s", " ", "]", " ", "[">>) }

Scrapers == {"java", "dotnet", "winserver", "oracle", "dbf"}

Pool(s) ==
    CASE s = "java" -> Java_Pool
      [] s = "dotnet" -> DotNet_Pool
      [] s = "winserver" -> WS_Pool
      [] s = "oracle" -> OL_Pool
      [] s = "dbf" -> DBF_Pool

BoundedSeq(S, n) == UNION {[1..k -> S] : k \in 0..n}

(***************************************************************************)
(* A driver call that raises.  One call of a run may fail:                  *)
(*   get     driver.get(url)                                                *)
(*   lookup  driver.find_element(s)(By.TAG_NAME, tag) on the document       *)
(*   find    find_elements(By.TAG_NAME, ...) on element `at` of the page    *)
(*   text    .text of element `at`: of its first cell for a row, of its     *)
(*           item `item` for a list                                         *)
(* What the run does next follows from the try block the call stands in.    *)
(***************************************************************************)
\* the tags each scraper looks up on the document, in the order of its scan
Lookups(s) ==
    CASE s = "java" -> <<"table">>
      [] s = "dbf" -> <<"li", "p", "div">>
      [] s = "dotnet" -> <<"body", "table">>
      [] s = "winserver" -> <<"table", "ul", "ol", "p", "div", "section", "article">>
      [] s = "oracle" -> <<"table", "ul", "ol", "h2", "h3", "h4">>
      [] s = "windows11" -> <<"table">>

Faults(s, p) ==
    {NoFault, [kind |-> "get", tag |-> "", at |-> 0, item |-> 0]}
    \cup {[kind |-> "lookup", tag |-> Lookups(s)[n], at |-> 0, item |-> 0] : n \in 1..Len(Lookups(s))}
    \cup {[kind |-> "find", tag |-> "", at |-> k, item |-> 0] :
              k \in {i \in 1..Len(p) : p[i].tag \in {"tr", "ul", "ol"}}}
    \cup UNION {{[kind |-> "text", tag |-> "", at |-> k, item |-> j] :
                     j \in 1..(IF p[k].tag \in {"ul", "ol"} THEN Len(p[k].cells) ELSE 1)} :
                k \in 1..Len(p)}

\* an element whose processing a handler cut short: nothing of it is scanned
Lost(e) == [tag |-> IF e.tag = "tr" THEN "tr" ELSE "lost", first |-> e.first, cells |-> <<>>]

\* the 1-based place of a tag in a scan order, 0 when it is not scanned
TagRank(tags, tag) ==
    IF \E n \in 1..Len(tags) : tags[n] = tag
    THEN CHOOSE n \in 1..Len(tags) : tags[n] = tag
    ELSE 0

\* One try block around loops over the elements of each tag of `tags` in turn
\* (for tag in tags: for element in driver.find_elements(tag): element.text).
\* A call that raises inside it ends the loops: what was scanned before is
\* kept, the element and everything the loops had still to visit are lost.
Cut(p, tags, f) ==
    LET hit == IF f.kind = "lookup" THEN <<TagRank(tags, f.tag), 0>>
               ELSE IF f.kind \in {"find", "text"} /\ f.at <= Len(p)
                    THEN <<TagRank(tags, p[f.at].tag), f.at>>
               ELSE <<0, 0>>
        after(i) == \/ TagRank(tags, p[i].tag) > hit[1]
                    \/ TagRank(tags, p[i].tag) = hit[1] /\ i >= hit[2]
    IN  IF hit[1] = 0 THEN p
        ELSE [i \in 1..Len(p) |->
                 IF ~after(i) THEN p[i]
                 ELSE IF i = f.at /\ f.kind = "text" /\ p[i].tag \in {"ul", "ol"}
                      THEN [p[i] EXCEPT !.cells = SubSeq(p[i].cells, 1, f.item - 1)]
                 ELSE Lost(p[i])]

\* the document as the scan of scraper s gets to see it when call f raises:
\* what the handler that catches the exception skips is lost
Surviving(s, p, f) ==
    LET k == f.at
        row == f.kind \in {"find", "text"} /\ k <= Len(p) /\ p[k].tag = "tr"
        without == [p EXCEPT ![k] = Lost(@)]
        lists == Cut(p, <<"ul", "ol">>, f)
    IN  CASE f.kind \in {"none", "get"} \/ (f.kind # "lookup" /\ k > Len(p)) -> p
          [] s = "dbf" -> Cut(p, <<"li", "p", "div">>, f)
          [] s = "java" ->
                IF ~row \/ p[k].first \/ ByTag(SubSeq(p, 1, k - 1), "tr") = <<>> THEN p
                ELSE IF f.kind = "text" THEN (IF Len(p[k].cells) >= 3 THEN without ELSE p)
                ELSE [i \in 1..Len(p) |->
                         IF i >= k /\ p[i].tag = "tr" /\ \A j \in (k + 1)..i : ~p[j].first
                         THEN Lost(p[i]) ELSE p[i]]
          [] s = "dotnet" -> IF row THEN without ELSE p
          [] s = "winserver" ->
                IF row THEN without ELSE Cut(lists, <<"p", "div", "section", "article">>, f)
          [] s = "oracle" ->
                IF row THEN without
                ELSE IF f.kind = "lookup" /\ f.tag \in {"h2", "h3", "h4"}
                     THEN Cut(p, <<"h2", "h3", "h4">>, [f EXCEPT !.tag = "h2"])
                ELSE IF f.kind = "text" /\ p[k].tag \in {"p", "div"} THEN without
                ELSE \* a ul the list scan lost is still read, as one text, by the
                     \* section scan when it follows a heading; the items read before
                     \* the exception stay with the list scan
                     LET cut == Cut(lists, <<"h2", "h3", "h4">>, f)
                     IN  [i \in 1..Len(p) |->
                             IF p[i].tag = "ul" /\ cut[i] # p[i]
                             THEN Elem("div", JoinLines(p[i].cells)) ELSE cut[i]]
                         \o (IF f.kind = "text" /\ p[k].tag = "ul" /\ f.item > 1
                             THEN <<Lost(p[k]), cut[k]>> ELSE <<>>)
          [] s = "windows11" ->
                IF row /\ f.kind = "text" /\ Len(p[k].cells) >= 3 THEN without ELSE p

\* the exception of call f is caught by no inner try block: it reaches the
\* except clause of the entry point
Aborts(s, p, f) ==
    \/ f.kind = "get"
    \/ f.kind = "lookup" /\ f.tag = "table"
          /\ (s = "dotnet" => DotNet_extract_from_page_content(p, Url, ScrapedDate) # <<>>)
    \/ s = "dbf" /\ f.kind = "lookup"
    \/ s = "dbf" /\ f.kind = "text" /\ f.at <= Len(p) /\ p[f.at].tag \in {"li", "p", "div"}
    \/ s = "windows11" /\ f.kind = "find" /\ f.at <= Len(p) /\ p[f.at].tag = "tr"

\* an except clause that returns the empty list in every scraper
ExceptHandler_Empty(s, url, scraped_date) == <<>>

\* what the except clause of the entry point returns
ExceptHandler(s, url, scraped_date) ==
    CASE s = "dotnet" -> DotNet_get_fallback_dotnet_versions(url, scraped_date)
      [] s = "winserver" -> WS_get_fallback_windows_server_versions(url, scraped_date)
      [] s = "oracle" -> OL_get_fallback_oracle_linux_versions(url, scraped_date)
      [] OTHER -> <<>>

(***************************************************************************)
(* 7_versions.py: scrape_windows11_release_info.  A row of at least 3 td    *)
(* cells gives a record when its first two cells are not blank; the url is  *)
(* the href of the first link of the third cell, "" on a page without links *)
(***************************************************************************)
W11_Row(cells, scraped_date) ==
    IF Len(cells) >= 3 /\ Strip(cells[1]) # <<>> /\ Strip(cells[2]) # <<>>
    THEN << [version_name |-> Strip(cells[1]), version |-> Strip(cells[2]),
             url |-> "", scraped_date |-> scraped_date] >>
    ELSE <<>>

W11_scrape_windows11_release_info(p, scraped_date) ==
    LET rows == ByTag(p, "tr")
    IN  Concat([i \in 1..Len(rows) |-> W11_Row(rows[i].cells, scraped_date)])

W11_Pool == {
    Row(TRUE, <<>>),
    Row(FALSE, <<<<"V", "e", "r", "s", "i", "o", "n", " ", "2", "3", "H", "2">>, <<"2", "2", "6", "3", "1", ".", "3", "0", "0", "7">>, <<"K", "B", "5", "0", "3", "4", "1", "2", "3">>>>),
    Row(FALSE, <<<<"V", "e", "r", "s", "i", "o", "n", " ", "2", "3", "H", "2", " ">>, <<"2", "2", "6", "3", "1", ".", "3", "0", "0", "7">>, <<>>>>),
    Row(FALSE, <<<<"V", "e", "r", "s", "i", "o", "n", " ", "2", "2", "H", "2">>, <<" ", "2", "2", "6", "2", "1", ".", "3", "0", "0", "7", " ">>, <<"K", "B", "5", "0", "3", "4", "1", "2", "3">>>>),
    Row(FALSE, <<<<"V", "e", "r", "s", "i", "o", "n", " ", "2", "1", "H", "2">>, <<" ">>, <<"K", "B", "5", "0", "3", "4", "1", "2", "1">>>>),
    Row(FALSE, <<<<"S", "e", "r", "v", "i", "c", "i", "n", "g">>, <<"L", "T", "S", "C">>>>) }

(***************************************************************************)
(* main() of each scraper: the list it hands to save_to_csv, and the file   *)
(* save_to_csv writes                                                       *)
(***************************************************************************)
DBF_get_complete_fallback_data(url) == <<
    [Version |-> <<"v", "5", ".", "1">>, Date |-> <<"A", "u", "g", "u", "s", "t", " ", "2", "6", ",", " ", "2", "0", "1", "3">>, URL |-> url],
    [Version |-> <<"v", "4", ".", "9", "7">>, Date |-> <<"M", "a", "r", "c", "h", " ", "1", "3", ",", " ", "2", "0", "1", "3">>, URL |-> url],
    [Version |-> <<"v", "4", ".", "9", "5">>, Date |-> <<"F", "e", "b", "r", "u", "a", "r", "y", " ", "0", "5", ",", " ", "2", "0", "1", "3">>, URL |-> url],
    [Version |-> <<"v", "4", ".", "8", "5">>, Date |-> <<"N", "o", "v", "e", "m", "b", "e", "r", " ", "2", "8", ",", " ", "2", "0", "1", "2">>, URL |-> url],
    [Version |-> <<"v", "4", ".", "7", "5">>, Date |-> <<"A", "u", "g", "u", "s", "t", " ", "0", "7", ",", " ", "2", "0", "1", "2">>, URL |-> url],
    [Version |-> <<"v", "4", ".", "6", "5">>, Date |-> <<"J", "u", "n", "e", " ", "1", "4", ",", " ", "2", "0", "1", "2">>, URL |-> url],
    [Version |-> <<"v", "4", ".", "5", "5">>, Date |-> <<"A", "p", "r", "i", "l", " ", "1", "1", ",", " ", "2", "0", "1", "2">>, URL |-> url],
    [Version |-> <<"v", "4", ".", "4", "5">>, Date |-> <<"F", "e", "b", "r", "u", "a", "r", "y", " ", "1", "3", ",", " ", "2", "0", "1", "2">>, URL |-> url],
    [Version |-> <<"v", "4", ".", "3", "5">>, Date |-> <<"D", "e", "c", "e", "m", "b", "e", "r", " ", "1", "2", ",", " ", "2", "0", "1", "1">>, URL |-> url],
    [Version |-> <<"v", "4", ".", "2", "5">>, Date |-> <<"O", "c", "t", "o", "b", "e", "r", " ", "1", "7", ",", " ", "2", "0", "1", "1">>, URL |-> url],
    [Version |-> <<"v", "4", ".", "1">>, Date |-> <<"A", "u", "g", "u", "s", "t", " ", "1", "1", ",", " ", "2", "0", "1", "1">>, URL |-> url],
    [Version |-> <<"v", "3", ".", "9", "5">>, Date |-> <<"J", "u", "n", "e", " ", "1", "5", ",", " ", "2", "0", "1", "1">>, URL |-> url],
    [Version |-> <<"v", "3", ".", "8", "5">>, Date |-> <<"A", "p", "r", "i", "l", " ", "2", "5", ",", " ", "2", "0", "1", "1">>, URL |-> url],
    [Version |-> <<"v", "3", ".", "7", "5">>, Date |-> <<"F", "e", "b", "r", "u", "a", "r", "y", " ", "2", "8", ",", " ", "2", "0", "1", "1">>, URL |-> url],
    [Version |-> <<"v", "3", ".", "5", "5">>, Date |-> <<"N", "o", "v", "e", "m", "b", "e", "r", " ", "1", "0", ",", " ", "2", "0", "1", "0">>, URL |-> url],
    [Version |-> <<"v", "3", ".", "4", "5">>, Date |-> <<"S", "e", "p", "t", "e", "m", "b", "e", "r", " ", "1", "5", ",", " ", "2", "0", "1", "0">>, URL |-> url],
    [Version |-> <<"v", "3", ".", "2", "5">>, Date |-> <<"M", "a", "r", "c", "h", " ", "1", "5", ",", " ", "2", "0", "1", "0">>, URL |-> url],
    [Version |-> <<"v", "3", ".", "1", "5">>, Date |-> <<"D", "e", "c", "e", "m", "b", "e", "r", " ", "1", "8", ",", " ", "2", "0", "0", "9">>, URL |-> url],
    [Version |-> <<"v", "3", ".", "1">>, Date |-> <<"S", "e", "p", "t", "e", "m", "b", "e", "r", " ", "2", "1", ",", " ", "2", "0", "0", "9">>, URL |-> url],
    [Version |-> <<"v", "2", ".", "9", "5">>, Date |-> <<"M", "a", "y", " ", "1", "8", ",", " ", "2", "0", "0", "9">>, URL |-> url],
    [Version |-> <<"v", "2", ".", "8", "5">>, Date |-> <<"M", "a", "r", "c", "h", " ", "2", "3", ",", " ", "2", "0", "0", "9">>, URL |-> url],
    [Version |-> <<"v", "2", ".", "7", "5">>, Date |-> <<"J", "a", "n", "u", "a", "r", "y", " ", "1", "5", ",", " ", "2", "0", "0", "9">>, URL |-> url],
    [Version |-> <<"v", "2", ".", "6", "5">>, Date |-> <<"N", "o", "v", "e", "m", "b", "e", "r", " ", "2", "0", ",", " ", "2", "0", "0", "8">>, URL |-> url],
    [Version |-> <<"v", "2", ".", "5", "5">>, Date |-> <<"S", "e", "p", "t", "e", "m", "b", "e", "r", " ", "2", "5", ",", " ", "2", "0", "0", "8">>, URL |-> url],
    [Version |-> <<"v", "2", ".", "4", "5">>, Date |-> <<"J", "u", "l", "y", " ", "3", "0", ",", " ", "2", "0", "0", "8">>, URL |-> url],
    [Version |-> <<"v", "2", ".", "3", "5">>, Date |-> <<"J", "u", "n", "e", " ", "0", "5", ",", " ", "2", "0", "0", "8">>, URL |-> url],
    [Version |-> <<"v", "2", ".", "2", "5">>, Date |-> <<"A", "p", "r", "i", "l", " ", "1", "0", ",", " ", "2", "0", "0", "8">>, URL |-> url],
    [Version |-> <<"v", "2", ".", "1", "5">>, Date |-> <<"F", "e", "b", "r", "u", "a", "r", "y", " ", "1", "5", ",", " ", "2", "0", "0", "8">>, URL |-> url],
    [Version |-> <<"v", "2", ".", "0", "5">>, Date |-> <<"D", "e", "c", "e", "m", "b", "e", "r", " ", "2", "0", ",", " ", "2", "0", "0", "7">>, URL |-> url],
    [Version |-> <<"v", "1", ".", "9", "5">>, Date |-> <<"O", "c", "t", "o", "b", "e", "r", " ", "2", "5", ",", " ", "2", "0", "0", "7">>, URL |-> url] >>

\* SCRAPING_dbf.py main: if len(version_data) < 20
FallbackThreshold == 20

\* the column labels of DataFrame(data): the keys of the dict literals that
\* build the records, in the order they are written
DictKeys(s) ==
    IF s = "dbf" THEN <<"Version", "Date", "URL">>
    ELSE <<"version_name", "version", "url", "scraped_date">>

\* the columns in alphabetical order
Columns_Sorted(s, keys) ==
    IF s = "dbf" THEN <<"Date", "URL", "Version">>
    ELSE <<"scraped_date", "url", "version", "version_name">>

\* the columns of the frame that is written: df[[...]] in the save_to_csv of
\* the scraper classes, the frame as built in 7_versions.py
Columns(s, keys) ==
    CASE s = "dbf" -> <<"Version", "Date", "URL">>
      [] s = "windows11" -> keys
      [] OTHER -> <<"version_name", "version", "url", "scraped_date">>

\* record[column]
Field(r, column) ==
    CASE column = "Version" -> r.Version
      [] column = "Date" -> r.Date
      [] column = "URL" -> r.URL
      [] column = "version_name" -> r.version_name
      [] column = "version" -> r.version
      [] column = "url" -> r.url
      [] column = "scraped_date" -> r.scraped_date

\* df.to_csv(filename, index=False): the lines of the file, each the sequence
\* of its fields: the header line, then one line per record
ToCsv(columns, data) ==
    <<columns>> \o [i \in 1..Len(data) |-> [c \in 1..Len(columns) |-> Field(data[i], columns[c])]]

(***************************************************************************)
(* One run of a scraper's extraction method on the loaded document, the     *)
(* driver answering every call                                              *)
(***************************************************************************)
TextIdle == text = <<>> /\ fn = "none" /\ out = None /\ again = None

\* no extraction run is under way: the state holds one text and one method's value
RunIdle ==
    /\ scraper = "none" /\ page = <<>> /\ pc = "text"
    /\ versions_data = <<>> /\ result = <<>>
    /\ fault = NoFault /\ version_data = <<>> /\ csv = None

\* no account exists and no BankAccount method has been called
BankIdle == accounts = <<>> /\ clock = 0 /\ call = <<>> /\ ledger = <<>>

\* no book and no member exist and no Member method has been called
LibraryIdle == books = <<>> /\ borrowed_books = <<>> /\ now = 0 /\ reply = <<>>

FunctionIdle == func = "none" /\ args = <<>> /\ produced = <<>> /\ generator = <<>>

SessionIdle ==
    /\ site = "none" /\ step = "idle" /\ driver = <<>>
    /\ constructed = FALSE /\ extracted = "none" /\ exception = "none"

Init ==
    /\ scraper \in Scrapers
    /\ page \in BoundedSeq(Pool(scraper), MaxElements)
    /\ pc = "ready"
    /\ versions_data = <<>>
    /\ result = <<>>
    /\ fault = NoFault /\ version_data = <<>> /\ csv = None
    /\ TextIdle /\ BankIdle /\ LibraryIdle /\ FunctionIdle /\ SessionIdle

Returns(data, value) ==
    /\ pc' = "returned"
    /\ versions_data' = data
    /\ result' = value
    /\ UNCHANGED <<scraper, page, fault, version_data, csv, text_vars, bank_vars, library_vars, function_vars, session_vars>>

\* a text loop of the method never exits: the method does not return
Hangs ==
    /\ pc' = "hung"
    /\ UNCHANGED <<scraper, page, versions_data, result, fault, version_data, csv, text_vars, bank_vars, library_vars, function_vars, session_vars>>

extract_java_versions ==
    /\ scraper = "java" /\ pc = "ready"
    /\ LET seen == Surviving(scraper, page, fault)
       IN  IF Aborts(scraper, page, fault)
           THEN Returns(<<>>, ExceptHandler(scraper, Url, ScrapedDate))
           ELSE IF Java_Hangs(seen) THEN Hangs
           ELSE Returns(Java_versions_data(seen, Url, ScrapedDate),
                        Java_extract_java_versions(seen, Url, ScrapedDate))

\* strategy 1 reads body.text, strategy 2 the rows of the first tables; an
\* exception of the table lookup comes after strategy 1 has filled versions_data
extract_dotnet_versions ==
    /\ scraper = "dotnet" /\ pc = "ready"
    /\ LET page_data == IF fault.kind = "lookup" /\ fault.tag = "body" THEN <<>>
                        ELSE DotNet_extract_from_page_content(page, Url, ScrapedDate)
           found == IF page_data = <<>> THEN <<>>
                    ELSE page_data \o DotNet_extract_from_tables(
                                          Surviving(scraper, page, fault), Url, ScrapedDate)
       IN  IF Aborts(scraper, page, fault)
           THEN Returns(IF fault.kind = "get" THEN <<>> ELSE page_data,
                        ExceptHandler(scraper, Url, ScrapedDate))
           ELSE IF fault = NoFault
                THEN Returns(DotNet_versions_data(page, Url, ScrapedDate),
                             DotNet_extract_dotnet_versions(page, Url, ScrapedDate))
           ELSE Returns(found,
                        RemoveDuplicates(
                            IF found = <<>> THEN DotNet_get_fallback_dotnet_versions(Url, ScrapedDate)
                            ELSE found, <<>>, {}))

extract_windows_server_versions ==
    /\ scraper = "winserver" /\ pc = "ready"
    /\ LET seen == Surviving(scraper, page, fault)
       IN  IF Aborts(scraper, page, fault)
           THEN Returns(<<>>, ExceptHandler(scraper, Url, ScrapedDate))
           ELSE Returns(WS_versions_data(seen, Url, ScrapedDate),
                        WS_extract_windows_server_versions(seen, Url, ScrapedDate))

extract_oracle_linux_versions ==
    /\ scraper = "oracle" /\ pc = "ready"
    /\ LET seen == Surviving(scraper, page, fault)
       IN  IF Aborts(scraper, page, fault)
           THEN Returns(<<>>, ExceptHandler(scraper, Url, ScrapedDate))
           ELSE IF OL_Hangs(seen) THEN Hangs
           ELSE Returns(OL_versions_data(seen, Url, ScrapedDate),
                        OL_extract_oracle_linux_versions(seen, Url, ScrapedDate))

\* an exception anywhere in the method discards what the loops had collected
extract_all_versions ==
    /\ scraper = "dbf" /\ pc = "ready"
    /\ IF Aborts(scraper, page, fault)
       THEN Returns(DBF_versions_data(Surviving(scraper, page, fault), Url),
                    ExceptHandler(scraper, Url, ScrapedDate))
       ELSE Returns(DBF_versions_data(page, Url), DBF_extract_all_versions(page, Url))

Next ==
    \/ extract_java_versions
    \/ extract_dotnet_versions
    \/ extract_windows_server_versions
    \/ extract_oracle_linux_versions
    \/ extract_all_versions

Spec == Init /\ [][Next]_vars

(***************************************************************************)
(* One run of a scraper's main(): the extraction with a driver of which one *)
(* call may raise, the choice of the list to save, and save_to_csv          *)
(***************************************************************************)
scrape_windows11_release_info ==
    /\ scraper = "windows11" /\ pc = "ready"
    /\ IF Aborts(scraper, page, fault)
       THEN Returns(<<>>, ExceptHandler(scraper, Url, ScrapedDate))
       ELSE Returns(W11_scrape_windows11_release_info(Surviving(scraper, page, fault), ScrapedDate),
                    W11_scrape_windows11_release_info(Surviving(scraper, page, fault), ScrapedDate))

\* main without the threshold test: the extracted list is saved as it is
main_NoThreshold ==
    /\ pc = "returned"
    /\ pc' = "extracted"
    /\ version_data' = result
    /\ UNCHANGED <<scraper, page, versions_data, result, fault, csv, text_vars, bank_vars, library_vars, function_vars, session_vars>>

\* main(): the list handed to save_to_csv is the list the extraction returned;
\* the DBF2002 main replaces a list shorter than the threshold by its table
main ==
    /\ pc = "returned"
    /\ pc' = "extracted"
    /\ version_data' = IF scraper = "dbf" /\ Len(result) < FallbackThreshold
                       THEN DBF_get_complete_fallback_data(Url)
                       ELSE result
    /\ UNCHANGED <<scraper, page, versions_data, result, fault, csv, text_vars, bank_vars, library_vars, function_vars, session_vars>>

\* if data: df = pd.DataFrame(data); df = df[[...]]; df.to_csv(...)
save_to_csv ==
    /\ pc = "extracted"
    /\ pc' = "saved"
    /\ csv' = IF version_data # <<>>
              THEN ToCsv(Columns(scraper, DictKeys(scraper)), version_data)
              ELSE None
    /\ UNCHANGED <<scraper, page, versions_data, result, fault, version_data, text_vars, bank_vars, library_vars, function_vars, session_vars>>

\* str(n) for n < 100
Numeral(n) ==
    LET digit(d) == <<"0", "1", "2", "3", "4", "5", "6", "7", "8", "9">>[d + 1]
    IN  IF n < 10 THEN <<digit(n)>> ELSE <<digit(n \div 10), digit(n % 10)>>

\* a news page of n releases "Version 1.1" .. "Version 1.n", one per list item
DBF_Releases(n) == [i \in 1..n |-> Elem("li", <<"V", "e", "r", "s", "i", "o", "n", " ", "1", ".">> \o Numeral(i) \o <<" ", "r", "e", "l", "e", "a", "s", "e", "d">>)]

MaxRunElements == 2

\* the documents of a run: at most MaxRunElements elements of the pool and,
\* for DBF2002, the pages of as many releases as the threshold of main, or one
\* less, then at most one pool element
RunPages(s) ==
    CASE s = "windows11" -> BoundedSeq(W11_Pool, MaxRunElements)
      [] s = "dbf" -> BoundedSeq(Pool(s), MaxRunElements)
                      \cup {DBF_Releases(n) \o tail :
                              n \in {FallbackThreshold - 1, FallbackThreshold},
                              tail \in BoundedSeq(DBF_Pool, 1)}
      [] OTHER -> BoundedSeq(Pool(s), MaxRunElements)

Init_Run ==
    /\ scraper \in Scrapers \cup {"windows11"}
    /\ page \in RunPages(scraper)
    /\ fault \in Faults(scraper, page)
    /\ pc = "ready"
    /\ versions_data = <<>> /\ result = <<>> /\ version_data = <<>> /\ csv = None
    /\ TextIdle /\ BankIdle /\ LibraryIdle /\ FunctionIdle /\ SessionIdle

Next_Run ==
    \/ extract_java_versions
    \/ extract_dotnet_versions
    \/ extract_windows_server_versions
    \/ extract_oracle_linux_versions
    \/ extract_all_versions
    \/ scrape_windows11_release_info
    \/ main
    \/ save_to_csv

SpecRun == Init_Run /\ [][Next_Run]_vars


(***************************************************************************)
(* The bank account (Python_Assigment/Bank account/bank.py).  Amounts and   *)
(* balances are whole numbers of cents.  A call that raises leaves through  *)
(* its raise statement: the statements after it do not run.  The state      *)
(* keeps, for the last call, the method, the account, the amount, the       *)
(* balance the call found and the exception it raised ("none" if it         *)
(* returned).                                                               *)
(***************************************************************************)
MaxAccounts == 2

MaxAmount == 2

MaxBalance == 3

MaxSecond == 1

\* the amounts a caller passes: negative, zero and positive ones
Amounts == -1..MaxAmount

\* the number time.time() is reduced by (the five digits of the format)
AccountNumberSpace == 100000

\* f"{n:05d}" for 0 <= n < 100000
FiveDigits(n) ==
    [i \in 1..5 |-> <<"0", "1", "2", "3", "4", "5", "6", "7", "8", "9">>[((n \div (10 ^ (5 - i))) % 10) + 1]]

BankAccount__generate_account_number(t) ==
    <<"A", "C", "C">> \o FiveDigits(t % AccountNumberSpace)

\* what a method does to the balance it finds: the exception it raises and
\* the balance it leaves
Outcome(raised, balance) == [raised |-> raised, balance |-> balance]

BankAccount_deposit(balance, amount) ==
    IF amount <= 0 THEN Outcome("ValueError", balance)
    ELSE Outcome("none", balance + amount)

BankAccount_withdraw_AtLeast(balance, amount) ==
    IF amount <= 0 THEN Outcome("ValueError", balance)
    ELSE IF amount >= balance THEN Outcome("InsufficientBalanceError", balance)
    ELSE Outcome("none", balance - amount)

\* the method without the test of the balance
BankAccount_withdraw_Overdraw(balance, amount) ==
    IF amount <= 0 THEN Outcome("ValueError", balance)
    ELSE Outcome("none", balance - amount)

BankAccount_withdraw(balance, amount) ==
    IF amount <= 0 THEN Outcome("ValueError", balance)
    ELSE IF amount > balance THEN Outcome("InsufficientBalanceError", balance)
    ELSE Outcome("none", balance - amount)

Called(op, a, amount, o) ==
    /\ call' = <<[op |-> op, account |-> a, amount |-> amount,
                  balance |-> accounts[a].balance, raised |-> o.raised]>>
    /\ accounts' = [accounts EXCEPT ![a].balance = o.balance]
    /\ ledger' = [ledger EXCEPT ![a] = IF o.raised # "none" THEN @
                                       ELSE IF op = "deposit" THEN @ + amount ELSE @ - amount]
    /\ UNCHANGED <<clock, run_vars, text_vars, library_vars, function_vars, session_vars>>

\* BankAccount(account_holder, initial_balance), constructed when time.time()
\* reads t
BankAccount(initial_balance, t) ==
    /\ Len(accounts) < MaxAccounts
    /\ clock' = t
    /\ IF initial_balance < 0
       THEN /\ call' = <<[op |-> "__init__", account |-> 0, amount |-> initial_balance,
                          balance |-> 0, raised |-> "ValueError"]>>
            /\ UNCHANGED <<accounts, ledger>>
       ELSE /\ call' = <<[op |-> "__init__", account |-> Len(accounts) + 1, amount |-> initial_balance,
                          balance |-> 0, raised |-> "none"]>>
            /\ accounts' = Append(accounts, [balance |-> initial_balance,
                                             account_number |-> BankAccount__generate_account_number(t)])
            /\ ledger' = Append(ledger, initial_balance)
    /\ UNCHANGED <<run_vars, text_vars, library_vars, function_vars, session_vars>>

deposit(a, amount) ==
    /\ accounts[a].balance + amount <= MaxBalance
    /\ Called("deposit", a, amount, BankAccount_deposit(accounts[a].balance, amount))

withdraw(a, amount) ==
    /\ Called("withdraw", a, amount, BankAccount_withdraw(accounts[a].balance, amount))

\* the moments a construction can happen at: the first seconds of the run
\* and the same seconds AccountNumberSpace later
Moments == {w * AccountNumberSpace + sec : w \in 0..1, sec \in 0..MaxSecond}

\* the readings of the clock at a construction: time does not run backwards
Readings == {t \in Moments : t >= clock}

Init_Bank ==
    /\ RunIdle /\ TextIdle /\ LibraryIdle /\ FunctionIdle /\ SessionIdle
    /\ BankIdle

Construct ==
    /\ \E initial_balance \in -1..1, t \in Readings : BankAccount(initial_balance, t)

Deposit ==
    /\ \E a \in 1..Len(accounts), amount \in Amounts : deposit(a, amount)

Withdraw ==
    /\ \E a \in 1..Len(accounts), amount \in Amounts : withdraw(a, amount)

Next_Bank ==
    \/ Construct
    \/ Deposit
    \/ Withdraw

SpecBank == Init_Bank /\ [][Next_Bank]_vars


(***************************************************************************)
(* The library (Python_Assigment/Library/library.py).  Books and members    *)
(* are numbered; a book's title stands for the book in the messages.        *)
(* datetime.now() is read in whole days; it moves when time passes between *)
(* two calls.  An Optional field is a sequence of zero or one value.  The   *)
(* state keeps, for the last Member call, the method, the member, the book, *)
(* the day of the call, the member's list and the book as the call found    *)
(* them, and the message returned.                                          *)
(***************************************************************************)
MaxBooks == 6

MaxLoans == 2

MaxShared == 1

MaxLate == 1

\* member1 and member2 of the demonstration
Members == {1, 2}

\* the limit of books per member
LoanLimit == 5

\* timedelta(days=14)
LoanDays == 14

CannotBorrow == <<"Cannot borrow more than 5 books">>

NotBorrowedByYou == <<"This book was not borrowed by you">>

SuccessfullyBorrowed(b) == <<"Successfully borrowed", b>>

NotAvailable(b) == <<"is not available", b>>

ReturnedOverdue(b) == <<"returned (OVERDUE!)", b>>

ReturnedSuccessfully(b) == <<"returned successfully", b>>

\* Book(title, author, isbn)
Book == [available |-> TRUE, borrowed_by |-> <<>>, due_date |-> <<>>]

Did(ok, book) == [ok |-> ok, book |-> book]

\* the method without the test of the availability
Book_borrow_Always(book, member, t) ==
    Did(TRUE, [available |-> FALSE, borrowed_by |-> <<member>>, due_date |-> <<t + LoanDays>>])

Book_borrow(book, member, t) ==
    IF book.available
    THEN Did(TRUE, [available |-> FALSE, borrowed_by |-> <<member>>, due_date |-> <<t + LoanDays>>])
    ELSE Did(FALSE, book)

Book_return_book(book) ==
    IF ~book.available
    THEN Did(TRUE, [available |-> TRUE, borrowed_by |-> <<>>, due_date |-> <<>>])
    ELSE Did(FALSE, book)

Book_is_overdue(book, t) == book.due_date # <<>> /\ t > book.due_date[1]

\* book in self.borrowed_books
Holds(list, b) == \E i \in 1..Len(list) : list[i] = b

\* self.borrowed_books.remove(book): the first occurrence goes
Remove(list, b) ==
    LET i == CHOOSE k \in 1..Len(list) : list[k] = b /\ \A j \in 1..(k - 1) : list[j] # b
    IN  SubSeq(list, 1, i - 1) \o SubSeq(list, i + 1, Len(list))

\* what a Member method returns and leaves behind
Answer(message, list, book) == [message |-> message, borrowed_books |-> list, book |-> book]

Member_borrow_book_Over(list, book, m, b, t) ==
    IF Len(list) > LoanLimit THEN Answer(CannotBorrow, list, book)
    ELSE LET did == Book_borrow(book, m, t)
         IN  IF did.ok THEN Answer(SuccessfullyBorrowed(b), Append(list, b), did.book)
             ELSE Answer(NotAvailable(b), list, did.book)

Member_borrow_book(list, book, m, b, t) ==
    IF Len(list) >= LoanLimit THEN Answer(CannotBorrow, list, book)
    ELSE LET did == Book_borrow(book, m, t)
         IN  IF did.ok THEN Answer(SuccessfullyBorrowed(b), Append(list, b), did.book)
             ELSE Answer(NotAvailable(b), list, did.book)

\* the method without the removal from the list
Member_return_book_Keep(list, book, m, b, t) ==
    IF Holds(list, b)
    THEN LET returned == Book_return_book(book).book
         IN  Answer(IF Book_is_overdue(returned, t) THEN ReturnedOverdue(b) ELSE ReturnedSuccessfully(b),
                    list, returned)
    ELSE Answer(NotBorrowedByYou, list, book)

Member_return_book(list, book, m, b, t) ==
    IF Holds(list, b)
    THEN LET returned == Book_return_book(book).book
         IN  Answer(IF Book_is_overdue(returned, t) THEN ReturnedOverdue(b) ELSE ReturnedSuccessfully(b),
                    Remove(list, b), returned)
    ELSE Answer(NotBorrowedByYou, list, book)

\* member m calls op on book b and gets the answer a
Replied(op, m, b, a) ==
    /\ reply' = <<[op |-> op, member |-> m, book |-> b, at |-> now,
                   held |-> borrowed_books[m], was |-> books[b], message |-> a.message]>>
    /\ borrowed_books' = [borrowed_books EXCEPT ![m] = a.borrowed_books]
    /\ books' = [books EXCEPT ![b] = a.book]
    /\ UNCHANGED <<now, run_vars, text_vars, bank_vars, function_vars, session_vars>>

borrow_book(m, b) ==
    /\ Replied("borrow_book", m, b, Member_borrow_book(borrowed_books[m], books[b], m, b, now))

return_book(m, b) ==
    /\ Replied("return_book", m, b, Member_return_book(borrowed_books[m], books[b], m, b, now))

\* the days of the calls: the first day, and the days from LoanDays later on
Days == {0} \cup {LoanDays + late : late \in 0..MaxLate}

\* time passes between two calls: datetime.now() reads a later day
Pass ==
    /\ \E t \in Days : t > now /\ now' = t
    /\ UNCHANGED <<books, borrowed_books, reply, run_vars, text_vars, bank_vars, function_vars, session_vars>>

\* a library of n books and the two members, nothing borrowed
Library(n) ==
    /\ RunIdle /\ TextIdle /\ BankIdle /\ FunctionIdle /\ SessionIdle
    /\ books = [b \in 1..n |-> Book]
    /\ borrowed_books = [m \in Members |-> <<>>]
    /\ now = 0
    /\ reply = <<>>

\* the books a member asks for: member1 every book, member2 the first
\* MaxShared ones
Asked(m) == IF m = 1 THEN DOMAIN books ELSE {b \in DOMAIN books : b <= MaxShared}

Borrow ==
    /\ \E m \in Members : \E b \in Asked(m) : borrow_book(m, b)

Return ==
    /\ \E m \in Members : \E b \in Asked(m) : return_book(m, b)

\* the calls of one day on a library of MaxBooks books
Init_Library == Library(MaxBooks)

Next_Library ==
    \/ Borrow
    \/ Return

SpecLibrary == Init_Library /\ [][Next_Library]_vars

\* the calls of several days on a library of MaxLoans books
Init_Loan == Library(MaxLoans)

Next_Loan ==
    \/ Borrow
    \/ Return
    \/ Pass

SpecLoan == Init_Loan /\ [][Next_Loan]_vars

(***************************************************************************)
(* What the claims speak of                                                 *)
(***************************************************************************)
\* the deduplication key of a record of the running scraper
Key(r) == IF scraper = "dbf" THEN r.Version ELSE r.version

\* the record built from each fragment that parses, in the order of the scan
Parsed ==
    CASE scraper = "java" -> Java_versions_data(page, Url, ScrapedDate)
      [] scraper = "dotnet" -> DotNet_versions_data(page, Url, ScrapedDate)
      [] scraper = "winserver" -> WS_versions_data(page, Url, ScrapedDate)
      [] scraper = "oracle" -> OL_versions_data(page, Url, ScrapedDate)
      [] scraper = "dbf" ->
            LET texts == Texts(ByTag(page, "li")) \o Texts(ByTag(page, "p")) \o Texts(ByTag(page, "div"))
            IN  Concat([i \in 1..Len(texts) |-> DBF_Candidate(texts[i], Url)])

\* the fragments of the scan, parsed or not
Scanned ==
    CASE scraper = "java" -> ByTag(page, "tr")
      [] scraper = "dotnet" -> DotNet_Lines(page)
      [] scraper = "winserver" -> WS_ScanTexts(page)
      [] scraper = "oracle" -> OL_ScanTexts(page)
      [] scraper = "dbf" -> page

\* the positions of recs that hold the first record of their key
FirstPositions(recs) ==
    {i \in 1..Len(recs) : \A j \in 1..(i - 1) : Key(recs[j]) # Key(recs[i])}

\* the subsequence of recs at the positions of keep, in their order
SubsequenceAt(recs, keep) ==
    [k \in 1..Cardinality(keep) |->
        recs[CHOOSE i \in keep : Cardinality({j \in keep : j <= i}) = k]]

FirstOccurrences(recs) == SubsequenceAt(recs, FirstPositions(recs))

Fallback ==
    CASE scraper = "dotnet" -> DotNet_get_fallback_dotnet_versions(Url, ScrapedDate)
      [] scraper = "winserver" -> WS_get_fallback_windows_server_versions(Url, ScrapedDate)
      [] scraper = "oracle" -> OL_get_fallback_oracle_linux_versions(Url, ScrapedDate)
      [] OTHER -> <<>>

\* C1: the list the deduplication step of an extraction method returns holds no
\* two records with an equal version value
C1_NoEqualVersions ==
    pc = "returned" =>
        \A i, j \in 1..Len(result) : i # j => Key(result[i]) # Key(result[j])

\* a run whose collected records held a repeated version, two versions being kept
C1_Witness ==
    /\ pc = "returned"
    /\ Len(versions_data) > Len(result)
    /\ Len(result) >= 2

\* C2 as stated: the result is always the first record of each version among
\* the parsed fragments, in the order of the scan
C2_Original == pc = "returned" => result = FirstOccurrences(Parsed)

\* C2: when at least one fragment parses, the result is exactly the parsed
\* records that are the first of their version in the order of the scan, in
\* that order: later records of a version and unparsable fragments are dropped
C2_FirstSeenInScanOrder ==
    (pc = "returned" /\ Parsed # <<>>) => result = FirstOccurrences(Parsed)

\* a Windows Server run that dropped a later record of a version and an
\* unparsable fragment and kept two versions
C2_Witness ==
    /\ scraper = "winserver" /\ pc = "returned"
    /\ Len(result) >= 2
    /\ Len(Parsed) > Len(result)
    /\ Len(Scanned) > Len(Parsed)

\* C3 as stated: whenever no fragment parses, the extraction returns an empty result
C3_Original == (pc = "returned" /\ Parsed = <<>>) => result = <<>>

\* C3: when no fragment parses (the empty document included), extract_java_versions
\* and extract_all_versions return an empty list; extract_dotnet_versions,
\* extract_windows_server_versions and extract_oracle_linux_versions return
\* records of their fallback table, one for each version of the table
C3_EmptyOrFallback ==
    (pc = "returned" /\ Parsed = <<>>) =>
        IF scraper \in {"java", "dbf"} THEN result = <<>>
        ELSE /\ \A i \in 1..Len(result) : \E k \in 1..Len(Fallback) : result[i] = Fallback[k]
             /\ \A k \in 1..Len(Fallback) : \E i \in 1..Len(result) : result[i].version = Fallback[k].version

\* a DBF2002 run on a document none of whose fragments parses
C3_Witness ==
    /\ scraper = "dbf" /\ pc = "returned"
    /\ page # <<>>
    /\ Parsed = <<>>
    /\ result = <<>>

C4_Fragments == <<
    <<"V", "e", "r", "s", "i", "o", "n", " ", "5", ".", "1", " ", "(", "A", "u", "g", "u", "s", "t", " ", "2", "6", ",", " ", "2", "0", "1", "3", ")">>,
    <<"V", "e", "r", "s", "i", "o", "n", " ", "5", ".", "1", " ", "d", "u", "p", "l", "i", "c", "a", "t", "e">>,
    <<"n", "o", " ", "v", "e", "r", "s", "i", "o", "n", " ", "h", "e", "r", "e">> >>

C4_Given ==
    /\ scraper = "dbf" /\ pc = "returned"
    /\ [i \in 1..Len(page) |-> ElemText(page[i])] = C4_Fragments

MaxParts == 3

Token_Pieces == {
    <<"V", "e", "r", "s", "i", "o", "n", " ">>, <<"v", "e", "r", "s", "i", "o", "n">>, <<"5", ".", "1">>, <<"1", ".", "0", " ">>, <<"2", "0", "1", "6">>, <<" ">>, <<"o", "l">>, <<"]", " ", "[">>, <<" ", "r", "e", "l", "e", "a", "s", "e", "d">>,
    <<"r", "e", "l", "e", "a", "s", "e", " ">>, <<".">>
}

Fragments(pieces, n) == {Concat(parts) : parts \in BoundedSeq(pieces, n)}

Init_Token ==
    /\ RunIdle /\ BankIdle /\ LibraryIdle /\ FunctionIdle /\ SessionIdle
    /\ text \in Fragments(Token_Pieces, MaxParts)
    /\ fn = "none" /\ out = None /\ again = None

\* no method has been called on the text yet
TextReady == pc = "text" /\ fn = "none"

\* the method named name returns value
Yield(name, value) ==
    /\ fn' = name
    /\ out' = value
    /\ UNCHANGED <<run_vars, bank_vars, library_vars, text, again, function_vars, session_vars>>

extract_version_string ==
    /\ TextReady
    /\ Yield("dbf.extract_version_string", DBF_extract_version_string(text))

extract_dotnet_version ==
    /\ TextReady
    /\ Yield("dotnet.extract_dotnet_version", DotNet_extract_dotnet_version(text))

extract_windows_server_version ==
    /\ TextReady
    /\ Yield("winserver.extract_windows_server_version", WS_extract_windows_server_version(text))

extract_oracle_linux_version ==
    /\ TextReady
    /\ Yield("oracle.extract_oracle_linux_version", OL_extract_oracle_linux_version(text))

\* the three methods of the name extract_version_number
extract_version_number(class) ==
    /\ TextReady
    /\ Yield(class \o ".extract_version_number",
             CASE class = "java" -> Java_extract_version_number(text)
               [] class = "winserver" -> WS_extract_version_number(text)
               [] class = "oracle" -> OL_extract_version_number(text))

Next_Token ==
    \/ extract_version_string
    \/ extract_dotnet_version
    \/ extract_windows_server_version
    \/ extract_oracle_linux_version
    \/ \E class \in {"java", "winserver", "oracle"} : extract_version_number(class)

SpecToken == Init_Token /\ [][Next_Token]_vars


(***************************************************************************)
(* What the claims on the version token speak of                            *)
(***************************************************************************)
\* digits and dots, from a digit to a digit, with a dot
DottedNumeral(n) ==
    /\ n # <<>> /\ IsDigit(n[1]) /\ IsDigit(n[Len(n)])
    /\ \A k \in 1..Len(n) : IsDigit(n[k]) \/ n[k] = "."
    /\ \E k \in 1..Len(n) : n[k] = "."

\* the 0-based positions at which t holds the keyword "version", in any case
KeywordPositions(t) == {i \in 0..(Len(t) - 7) : SubSeq(Lower(t), i + 1, i + 7) = KwVersion}

\* 1-based index of the first character after the keyword at i that is not
\* whitespace (Len(t) + 1 when there is none)
AfterKeyword(t, i) == MinOf({j \in (i + 8)..(Len(t) + 1) : j = Len(t) + 1 \/ ~IsSpace(t[j])})

\* the last index of the run of digits and dots that starts at a
RunEnd(t, a) == MaxOf({j \in (a - 1)..Len(t) : \A k \in a..j : IsDigit(t[k]) \/ t[k] = "."})

\* the numeral that follows the keyword at i: the run of digits and dots
\* there, without its dots at the end; <<>> when no digit follows
NumeralAt(t, i) ==
    LET a == AfterKeyword(t, i)
    IN  IF a > Len(t) \/ ~IsDigit(t[a]) THEN <<>>
        ELSE StripChar(SubSeq(t, a, RunEnd(t, a)), ".")

\* 1-based index of the first character of that numeral
NumeralStart(t, i) == AfterKeyword(t, i)

\* the number of an (name, number) pair; None and NonTerminating stay as they are
NumberOf(o) == IF Len(o) = 2 THEN o[2] ELSE o

C5_Methods == {"dbf.extract_version_string", "winserver.extract_version_number",
               "oracle.extract_oracle_linux_version"}

YearWordIndexes(t) ==
    {k \in 1..Len(Split(t)) :
        /\ Len(Split(t)[k]) = 4 /\ AllDigits(Split(t)[k])
        /\ ToInt(Split(t)[k]) >= YearMin /\ ToInt(Split(t)[k]) <= YearMax}

\* the digits of a numeral before its first dot
LeadingDigits(n) == SubSeq(n, 1, MinOf({k \in 1..Len(n) : n[k] = "."}) - 1)

\* no digit of t lies outside the characters a..b, and no dot lies before a
OnlyNumberIn(t, a, b) ==
    /\ \A k \in 1..Len(t) : IsDigit(t[k]) => (a <= k /\ k <= b)
    /\ \A k \in 1..(a - 1) : t[k] # "."

C6_Original == (fn # "none" /\ ~AnyDigit(text)) => out = None

(***************************************************************************)
(* The text-cleaning methods applied to one text, and applied again to      *)
(* what they returned                                                       *)
(***************************************************************************)
Clean_Pieces == {
    <<"R", "e", "l", "e", "a", "s", "e", "d", " ", "i", "n", " ", "2", "0", "2", "0">>, <<"[", "1", "]">>, <<"[", "2", "]">>, <<"[">>, <<"]">>, <<" ">>, <<"\n">>, <<"a">>
}

Init_Clean ==
    /\ RunIdle /\ BankIdle /\ LibraryIdle /\ FunctionIdle /\ SessionIdle
    /\ text \in Fragments(Clean_Pieces, MaxParts)
    /\ fn = "none" /\ out = None /\ again = None

\* value = method(text) and twice = method(value), unless the first call does not return
YieldTwice(name, value, twice) ==
    /\ fn' = name
    /\ out' = value
    /\ again' = IF value = NonTerminating THEN None ELSE twice
    /\ UNCHANGED <<run_vars, bank_vars, library_vars, text, function_vars, session_vars>>

\* clean_text of the class, NonTerminating kept as it is
CleanTextOf(class, t) ==
    IF t = NonTerminating THEN NonTerminating
    ELSE CASE class = "dotnet" -> DotNet_clean_text(t)
           [] class = "winserver" -> WS_clean_text(t)
           [] class = "oracle" -> OL_clean_text(t)

clean_text(class) ==
    /\ TextReady
    /\ YieldTwice(class \o ".clean_text", CleanTextOf(class, text),
                  CleanTextOf(class, CleanTextOf(class, text)))

format_date ==
    /\ TextReady
    /\ YieldTwice("java.format_date", Java_format_date(text),
                  IF Java_format_date(text) = NonTerminating THEN NonTerminating
                  ELSE Java_format_date(Java_format_date(text)))

Next_Clean ==
    \/ \E class \in {"dotnet", "winserver", "oracle"} : clean_text(class)
    \/ format_date

SpecClean == Init_Clean /\ [][Next_Clean]_vars

(***************************************************************************)
(* What the claims on text cleaning speak of                                *)
(***************************************************************************)
CleanTextMethods == {"dotnet.clean_text", "winserver.clean_text", "oracle.clean_text"}

\* C7 as stated: clean_text is idempotent in each variant: whenever
\* clean_text(x) returns, clean_text(clean_text(x)) = clean_text(x)
C7_Original == (fn \in CleanTextMethods /\ out # NonTerminating) => again = out

NoBracket(s) == \A k \in 1..Len(s) : s[k] \notin {"[", "]"}

\* s is one or more markers [...] one after the other
IsMarkers(s) ==
    /\ s # <<>> /\ s[1] = "[" /\ s[Len(s)] = "]"
    /\ \A k \in 2..Len(s) : s[k] = "[" => s[k - 1] = "]"
    /\ \A k \in 1..(Len(s) - 1) : s[k] = "]" => s[k + 1] = "["

\* a '[' of s is followed later by a ']'
HasMarker(s) == \E i, j \in 1..Len(s) : i < j /\ s[i] = "[" /\ s[j] = "]"

CitationMethod(name, t) ==
    IF name = "oracle.clean_text" THEN OL_clean_text(t) ELSE Java_format_date(t)

\* C8 as stated, for the methods that strip citations: a text made of a body
\* without brackets followed by one or more markers [...] is cleaned to the
\* cleaned body, and no result holds a '[' followed later by a ']'
C8_Original ==
    fn \in {"oracle.clean_text", "java.format_date"} =>
        /\ out # NonTerminating => ~HasMarker(out)
        /\ \A k \in 0..Len(text) :
               (NoBracket(SubSeq(text, 1, k)) /\ IsMarkers(SubSeq(text, k + 1, Len(text))))
                   => out = CitationMethod(fn, SubSeq(text, 1, k))

(***************************************************************************)
(* The Windows Server methods applied to one text fragment                  *)
(***************************************************************************)
Year_Pieces == {
    <<"W", "i", "n", "d", "o", "w", "s", " ", "S", "e", "r", "v", "e", "r", " ">>, <<"2", "0", "2", "2">>, <<"2", "0", "1", "6", " ">>, <<"1", "9", "9", "9", " ">>, <<"2", "0", "2", "5">>, <<",">>, <<" ", "s", "u", "p", "p", "o", "r", "t", "e", "d">>, <<"F", "r", "o", "m", " ">>
}

Init_Year ==
    /\ RunIdle /\ BankIdle /\ LibraryIdle /\ FunctionIdle /\ SessionIdle
    /\ text \in Fragments(Year_Pieces, MaxParts)
    /\ fn = "none" /\ out = None /\ again = None

\* the record built from the fragment: <<>> for None
parse_windows_server_text ==
    /\ TextReady
    /\ Yield("winserver.parse_windows_server_text",
             WS_parse_windows_server_text(text, Url, ScrapedDate))

Next_Year ==
    \/ parse_windows_server_text
    \/ extract_windows_server_version
    \/ extract_version_number("winserver")

SpecYear == Init_Year /\ [][Next_Year]_vars

(***************************************************************************)
(* What the claim on the year heuristic speaks of                           *)
(***************************************************************************)
\* the 1-based indexes at which t holds "Windows Server " and then a 4-digit
\* year of the range that no further digit follows
ServerYearIndexes(t) ==
    {i \in 1..(Len(t) - 18) :
        /\ SubSeq(t, i, i + 14) = WindowsServerPrefix
        /\ AllDigits(SubSeq(t, i + 15, i + 18))
        /\ ToInt(SubSeq(t, i + 15, i + 18)) >= YearMin
        /\ ToInt(SubSeq(t, i + 15, i + 18)) <= YearMax
        /\ (i + 19 <= Len(t) => ~IsDigit(t[i + 19]))}

ServerYear(t, i) == SubSeq(t, i + 15, i + 18)

\* the record out has the version year and a name that holds "Windows Server <year>"
IsServerRecord(o, year) ==
    /\ Len(o) = 1
    /\ o[1].version = year
    /\ Contains(WindowsServerPrefix \o year, o[1].version_name)

\* C9 as stated: every fragment that holds "Windows Server" followed by a
\* 4-digit year in [2000, 2030] gives a record with that year as version and
\* a name that holds "Windows Server <year>"
C9_Original ==
    fn = "winserver.parse_windows_server_text" =>
        \A i \in ServerYearIndexes(text) : IsServerRecord(out, ServerYear(text, i))

\* the year at i is a word of its own: whitespace or the end of the text follows it
YearIsWord(t, i) == i + 19 <= Len(t) => IsSpace(t[i + 19])

\* C9 as amended: when the fragment holds "Windows Server <year>" with <year>
\* a whitespace-delimited 4-digit word in [2000, 2030], and the first such
\* word of the fragment is <year>, the record has version <year> and a name
\* that holds "Windows Server <year>"
C9_FirstYearWord ==
    fn = "winserver.parse_windows_server_text" =>
        \A i \in ServerYearIndexes(text) :
            (/\ YearIsWord(text, i)
             /\ Split(text)[MinOf(YearWordIndexes(text))] = ServerYear(text, i))
                => IsServerRecord(out, ServerYear(text, i))

\* "Windows Server 2022 supported" was parsed into a record of version "2022"
C9_Witness ==
    /\ text = <<"W", "i", "n", "d", "o", "w", "s", " ", "S", "e", "r", "v", "e", "r", " ", "2", "0", "2", "2", " ", "s", "u", "p", "p", "o", "r", "t", "e", "d">>
    /\ fn = "winserver.parse_windows_server_text"
    /\ IsServerRecord(out, <<"2", "0", "2", "2">>)

(***************************************************************************)
(* extract_date_string applied to one text                                  *)
(***************************************************************************)
Date_Pieces == {
    <<"(">>, <<")">>, <<"M", "a", "y", " ", "2", "0", "1", "3">>, <<"(", "A", "U", "G", "U", "S", "T", " ", "2", "6", ")">>, <<"(", "b", "e", "t", "a", ")", " ">>, <<" ">>, <<"(", "M", "a", "y", " ", "2", "0", "1", "3", ")">>, <<"x">>
}

Init_Date ==
    /\ RunIdle /\ BankIdle /\ LibraryIdle /\ FunctionIdle /\ SessionIdle
    /\ text \in Fragments(Date_Pieces, MaxParts)
    /\ fn = "none" /\ out = None /\ again = None

extract_date_string ==
    /\ TextReady
    /\ Yield("dbf.extract_date_string", DBF_extract_date_string(text))

Next_Date == extract_date_string

SpecDate == Init_Date /\ [][Next_Date]_vars

(***************************************************************************)
(* What the claim on the date token speaks of                               *)
(***************************************************************************)
\* the parenthesized spans of t: an opening and the next closing parenthesis
\* with no parenthesis between them
Spans(t) ==
    {s \in (1..Len(t)) \X (1..Len(t)) :
        /\ s[1] < s[2] /\ t[s[1]] = "(" /\ t[s[2]] = ")"
        /\ \A k \in (s[1] + 1)..(s[2] - 1) : t[k] \notin {"(", ")"}}

\* what stands between the parentheses of a span, trimmed
SpanContent(t, s) == Strip(SubSeq(t, s[1] + 1, s[2] - 1))

\* C10 as stated: when some parenthesized span of the text holds a month
\* name (in any case) the method returns the content of such a span, in every
\* other case it returns "Date not found"; a value other than the sentinel
\* holds a month name
C10_Original ==
    fn = "dbf.extract_date_string" =>
        /\ (\E s \in Spans(text) : HasMonth(SpanContent(text, s)))
               => \E s \in Spans(text) : HasMonth(SpanContent(text, s)) /\ out = SpanContent(text, s)
        /\ ~(\E s \in Spans(text) : HasMonth(SpanContent(text, s))) => out = DateNotFound
        /\ out # DateNotFound => HasMonth(out)

\* 1-based index of the first occurrence of the character c in t (0 when there is none)
FirstIndex(t, c) == IF \E k \in 1..Len(t) : t[k] = c THEN MinOf({k \in 1..Len(t) : t[k] = c}) ELSE 0

\* C10 as amended: only the text between the FIRST '(' and the FIRST ')' is
\* looked at: when both exist, the ')' comes after the '(' and that text
\* holds a month name (in any case), the method returns it, trimmed; in every
\* other case it returns "Date not found"; a value other than the sentinel
\* holds a month name
C10_FirstSpan ==
    LET o == FirstIndex(text, "(")
        c == FirstIndex(text, ")")
        between == Strip(SubSeq(text, o + 1, c - 1))
    IN  fn = "dbf.extract_date_string" =>
            /\ out = IF o # 0 /\ c > o /\ HasMonth(between) THEN between ELSE DateNotFound
            /\ out # DateNotFound => HasMonth(out)

\* a text with a span before the dated one went through the method: the
\* first span decided, and a dated first span was returned
C10_Witness ==
    /\ fn = "dbf.extract_date_string"
    /\ text = <<"(", "A", "U", "G", "U", "S", "T", " ", "2", "6", ")", " ", "(", "M", "a", "y", " ", "2", "0", "1", "3", ")">>
    /\ out = <<"A", "U", "G", "U", "S", "T", " ", "2", "6">>

(***************************************************************************)
(* Termination of the text methods                                          *)
(***************************************************************************)
\* C13 as stated: every text-cleaning call returns: neither a clean_text
\* variant nor format_date is left in its citation loop, whatever the text,
\* a ']' before the first '[' included
C13_Original == fn \in CleanTextMethods \cup {"java.format_date"} => out # NonTerminating

(***************************************************************************)
(* What the claims on a whole run speak of                                  *)
(***************************************************************************)
\* the scrapers that own a fallback table
WithFallback == {"dbf", "dotnet", "winserver", "oracle"}

\* the fallback table of the running scraper
FallbackTable ==
    IF scraper = "dbf" THEN DBF_get_complete_fallback_data(Url) ELSE Fallback

\* the live extraction fell short of the scraper's threshold: fewer than 20
\* deduplicated records for DBF2002, no record at all for the others
Short ==
    IF scraper = "dbf" THEN Len(result) < FallbackThreshold ELSE versions_data = <<>>

\* the records the live extraction delivered
Live == IF scraper = "dbf" THEN result ELSE versions_data

OnlyFrom(recs, source) == \A i \in 1..Len(recs) : \E k \in 1..Len(source) : recs[i] = source[k]

\* C11 as stated: the fallback table is used exactly when the extraction
\* yields fewer records than the threshold, and then the final list holds
\* fallback records only; when the threshold is met it holds live records only
C11_Original ==
    (pc = "extracted" /\ scraper \in WithFallback) =>
        IF Short THEN version_data # <<>> /\ OnlyFrom(version_data, FallbackTable)
        ELSE OnlyFrom(version_data, Live)

\* C11 amended: the same, except when an exception reaches the except clause
\* of extract_dotnet_versions, extract_windows_server_versions or
\* extract_oracle_linux_versions: then the final list is the fallback table,
\* whatever had been extracted
C11_ThresholdOrHandler ==
    (pc = "extracted" /\ scraper \in WithFallback) =>
        IF scraper # "dbf" /\ Aborts(scraper, page, fault) THEN version_data = FallbackTable
        ELSE IF Short THEN version_data # <<>> /\ OnlyFrom(version_data, FallbackTable)
        ELSE OnlyFrom(version_data, Live)

\* a DBF2002 run whose extraction gives exactly as many records as the
\* threshold: the extracted list is kept
C11_Witness ==
    /\ scraper = "dbf" /\ pc = "extracted"
    /\ Len(result) = FallbackThreshold
    /\ version_data = result
    /\ version_data # DBF_get_complete_fallback_data(Url)

\* the column contract of the scraper's file
Contract ==
    IF scraper = "dbf" THEN <<"Version", "Date", "URL">>
    ELSE <<"version_name", "version", "url", "scraped_date">>

\* the fields of a record, in the order of the contract
ContractRow(r) ==
    IF scraper = "dbf" THEN <<r.Version, r.Date, r.URL>>
    ELSE <<r.version_name, r.version, r.url, r.scraped_date>>

\* C12: a file that save_to_csv wrote has its columns in the contract order,
\* (version_name, version, url, scraped_date), or (Version, Date, URL) for
\* DBF2002, each record on one line in that order, for live and for fallback
\* records; nothing is written when the list is empty
C12_ColumnsInContractOrder ==
    pc = "saved" =>
        IF version_data = <<>> THEN csv = None
        ELSE /\ csv # None
             /\ Head(csv) = Contract
             /\ Tail(csv) = [i \in 1..Len(version_data) |-> ContractRow(version_data[i])]

\* a file of fallback records was written
C12_Witness ==
    /\ pc = "saved" /\ csv # None
    /\ scraper \in {"dotnet", "dbf"}
    /\ version_data = FallbackTable
    /\ Len(csv) = 1 + Len(FallbackTable)

\* C18 as stated: on every return path of extract_dotnet_versions,
\* extract_windows_server_versions and extract_oracle_linux_versions, the
\* path through the except clause and the path of the empty extraction
\* included, the returned list has no two records with the same version
C18_Original ==
    (pc = "returned" /\ scraper \in {"dotnet", "winserver", "oracle"}) =>
        \A i, j \in 1..Len(result) : result[i].version = result[j].version => i = j

\* the failing call is the reading of one fragment: the text of a row, of a
\* list item, of a paragraph or of a div, or the cells of a row
ReadsFragment ==
    /\ fault.kind \in {"text", "find"}
    /\ fault.kind = "find" => page[fault.at].tag = "tr"
    /\ Aborts(scraper, page, fault) \/ Surviving(scraper, page, fault) # page

\* the document without the fragment the failing call reads
WithoutFragment ==
    [page EXCEPT ![fault.at] =
        IF @.tag \in {"ul", "ol"}
        THEN [@ EXCEPT !.cells = SubSeq(@, 1, fault.item - 1) \o SubSeq(@, fault.item + 1, Len(@))]
        ELSE Lost(@)]

\* what the extraction returns on document p when every driver call answers
Extracted(p) ==
    CASE scraper = "dbf" -> DBF_extract_all_versions(p, Url)
      [] scraper = "java" -> Java_extract_java_versions(p, Url, ScrapedDate)
      [] scraper = "winserver" -> WS_extract_windows_server_versions(p, Url, ScrapedDate)
      [] scraper = "windows11" -> W11_scrape_windows11_release_info(p, ScrapedDate)

\* C19 as stated, for the scrapers that read each fragment in one scan only:
\* when the reading of one fragment raises, the run returns what it returns on
\* the same document without that fragment
C19_Original ==
    (pc = "returned" /\ scraper \in {"dbf", "java", "winserver", "windows11"} /\ ReadsFragment)
        => result = Extracted(WithoutFragment)

\* the failing call is made during the run: its exception is raised
Raised ==
    \/ Aborts(scraper, page, fault)
    \/ fault.kind = "lookup" /\ fault.tag # "table"
    \/ Surviving(scraper, page, fault) # page

\* what the claim lets the caller see after an exception: an empty list, or
\* the fallback table of the scraper
AfterException == IF scraper \in {"java", "dbf", "windows11"} THEN <<>> ELSE Fallback

\* C20 as stated: whatever exception is raised by page loading, element access
\* or parsing, extract_java_versions, extract_all_versions and
\* scrape_windows11_release_info return an empty list and the three other
\* entry points return their fallback table
C20_Original ==
    (pc = "returned" /\ Raised) =>
        IF scraper \in {"java", "dbf", "windows11"} THEN result = <<>>
        ELSE result # <<>> /\ OnlyFrom(result, Fallback)

\* C20 amended: an exception that reaches the except clause of the entry point
\* makes it return an empty list (Java, DBF2002, Windows 11) or its fallback
\* table as it stands (.NET, Windows Server, Oracle Linux); no run ends in an
\* exception
C20_HandlerReturnsList ==
    /\ pc \in {"ready", "returned", "hung", "extracted", "saved"}
    /\ (pc = "returned" /\ Aborts(scraper, page, fault)) => result = AfterException
    /\ pc = "hung" => scraper \in {"java", "oracle"} /\ ~Aborts(scraper, page, fault)

\* the lookup of the tables raises on a Java page with a row that parses: the
\* method returns the empty list
C20_Witness ==
    /\ scraper = "java" /\ pc = "returned"
    /\ fault.kind = "lookup"
    /\ Java_extract_java_versions(page, Url, ScrapedDate) # <<>>
    /\ result = <<>>


\* the balance the account of the last call holds now
Left(c) == accounts[c.account].balance

\* C14: withdraw(amount) raises ValueError exactly when amount <= 0 and
\* InsufficientBalanceError exactly when amount > 0 and amount > balance, and
\* otherwise takes exactly amount off the balance (so withdrawing the whole
\* balance succeeds and leaves 0); deposit(amount) raises ValueError exactly
\* when amount <= 0 and otherwise adds exactly amount; a call that raises
\* leaves the balance as it found it.
C14_ErrorContract ==
    \A i \in 1..Len(call) :
        LET c == call[i]
        IN  c.op \in {"deposit", "withdraw"} =>
                /\ (c.raised = "ValueError") <=> (c.amount <= 0)
                /\ (c.raised = "InsufficientBalanceError")
                       <=> (c.op = "withdraw" /\ c.amount > 0 /\ c.amount > c.balance)
                /\ c.raised # "none" => Left(c) = c.balance
                /\ c.raised = "none" =>
                       Left(c) = IF c.op = "deposit" THEN c.balance + c.amount
                                 ELSE c.balance - c.amount

\* a withdrawal of the whole, positive balance has returned and left 0
C14_Witness ==
    /\ Len(call) = 1
    /\ call[1].op = "withdraw" /\ call[1].raised = "none"
    /\ call[1].amount = call[1].balance /\ call[1].balance > 0
    /\ Left(call[1]) = 0

\* C15 as stated: any two distinct accounts have different account numbers,
\* whenever they were created
C15_Original ==
    \A i, j \in 1..Len(accounts) :
        i # j => accounts[i].account_number # accounts[j].account_number


\* C16: no member ever holds more than five books, and a borrow_book call by
\* a member who holds five returns "Cannot borrow more than 5 books" and
\* leaves the member's list and the book as they were.
C16_AtMostFive ==
    /\ \A m \in 1..Len(borrowed_books) : Len(borrowed_books[m]) <= LoanLimit
    /\ \A i \in 1..Len(reply) :
           LET r == reply[i]
           IN  (r.op = "borrow_book" /\ Len(r.held) >= LoanLimit) =>
                   /\ r.message = CannotBorrow
                   /\ borrowed_books[r.member] = r.held
                   /\ books[r.book] = r.was

\* a member holding five books asked for a sixth, an available one
C16_Witness ==
    /\ Len(reply) = 1
    /\ reply[1].op = "borrow_book" /\ Len(reply[1].held) = LoanLimit
    /\ reply[1].was.available
    /\ reply[1].message = CannotBorrow

\* C17 as stated: a member returning a book of theirs after its due date gets
\* the "returned (OVERDUE!)" message, and on or before the due date the
\* "returned successfully" message
C17_Original ==
    \A i \in 1..Len(reply) :
        LET r == reply[i]
        IN  (r.op = "return_book" /\ Holds(r.held, r.book)) =>
                r.message = IF r.at > r.was.due_date[1] THEN ReturnedOverdue(r.book)
                            ELSE ReturnedSuccessfully(r.book)


(***************************************************************************)
(* What the claims on the shape of the token speak of                       *)
(***************************************************************************)
\* the methods that return a (name, number) pair
PairMethods == {"winserver.extract_windows_server_version", "oracle.extract_oracle_linux_version"}

\* a version token has been returned
TokenReturned == fn # "none" /\ out # None /\ out # NonTerminating

\* the version token of what the method returned
TokenOf(name, value) == IF name \in PairMethods THEN value[2] ELSE value

\* digits and dots only, at least one digit, no dot at either end
WellFormed(n) ==
    /\ n # <<>>
    /\ \A k \in 1..Len(n) : IsDigit(n[k]) \/ n[k] = "."
    /\ \E k \in 1..Len(n) : IsDigit(n[k])
    /\ n[1] # "." /\ n[Len(n)] # "."

Record_Pieces == {
    <<"W", "i", "n", "d", "o", "w", "s", " ", "S", "e", "r", "v", "e", "r", " ">>, <<"2", "0", "2", "2">>, <<".", "N", "E", "T", " ">>, <<"8", ".", "0">>, <<"J", "a", "v", "a", " ", "S", "E", " ">>, <<"O", "r", "a", "c", "l", "e", " ", "L", "i", "n", "u", "x", " ">>, <<"V", "e", "r", "s", "i", "o", "n", " ">>,
    <<" ", " ">>, <<"\n">>, <<" ", "S", "e", "r", "v", "e", "r">>
}

\* the release date cell of the row
DateCell == <<"1", "9", "9", "6">>

Init_Record ==
    /\ RunIdle /\ BankIdle /\ LibraryIdle /\ FunctionIdle /\ SessionIdle
    /\ text \in Fragments(Record_Pieces, MaxParts)
    /\ fn = "none" /\ out = None /\ again = None

parse_version_text ==
    /\ TextReady
    /\ Yield("dbf.parse_version_text", DBF_parse_version_text(text, Url))

parse_table_row ==
    /\ TextReady
    /\ Yield("java.parse_table_row", Java_parse_table_row(<<text, DateCell>>, Url, ScrapedDate))

parse_dotnet_text ==
    /\ TextReady
    /\ Yield("dotnet.parse_dotnet_text", DotNet_parse_dotnet_text(text, Url, ScrapedDate))

parse_oracle_linux_text ==
    /\ TextReady
    /\ Yield("oracle.parse_oracle_linux_text",
             IF OL_extract_oracle_linux_version(text) = NonTerminating THEN NonTerminating
             ELSE OL_parse_oracle_linux_text(text, Url, ScrapedDate))

Next_Record ==
    \/ parse_version_text
    \/ parse_table_row
    \/ parse_dotnet_text
    \/ parse_windows_server_text
    \/ parse_oracle_linux_text

SpecRecord == Init_Record /\ [][Next_Record]_vars

(***************************************************************************)
(* What the claims on the record of one fragment speak of                   *)
(***************************************************************************)
RecordMethods == {"dbf.parse_version_text", "java.parse_table_row", "dotnet.parse_dotnet_text",
                  "winserver.parse_windows_server_text", "oracle.parse_oracle_linux_text"}

\* the call does not return: clean_text's citation loop does not exit
RecordHangs ==
    fn = "oracle.parse_oracle_linux_text" /\ OL_extract_oracle_linux_version(text) = NonTerminating

\* a record-building method has returned
RecordCall == fn \in RecordMethods /\ ~RecordHangs

\* a record has been built
RecordBuilt == RecordCall /\ out # <<>>

\* the text-cleaning operation of the class whose method name is given
CleanName(name, t) ==
    CASE name = "java.parse_table_row" -> Java_extract_version_name(Strip(t))
      [] name = "dotnet.parse_dotnet_text" -> DotNet_clean_text(t)
      [] name = "winserver.parse_windows_server_text" -> WS_clean_text(t)
      [] name = "oracle.parse_oracle_linux_text" -> OL_clean_text(t)
      [] OTHER -> None

\* the token the class's version-extraction operation gives for the fragment
TokenFor(name, t) ==
    CASE name = "dbf.parse_version_text" -> DBF_extract_version_string(t)
      [] name = "java.parse_table_row" -> Java_extract_version_number(Strip(t))
      [] name = "dotnet.parse_dotnet_text" -> DotNet_extract_dotnet_version(t)
      [] name = "winserver.parse_windows_server_text" ->
             IF WS_extract_windows_server_version(t) = None THEN None
             ELSE WS_extract_windows_server_version(t)[2]
      [] name = "oracle.parse_oracle_linux_text" ->
             IF OL_extract_oracle_linux_version(t) = None THEN None
             ELSE OL_extract_oracle_linux_version(t)[2]

\* the fields a record holds
Fields(r) == DOMAIN r

\* C22 as stated: every record built from a fragment has the cleaned fragment
\* as its name and the fragment's token as its version, carries the url and
\* the scraping date it was given, and no record is built without a token
C22_Original ==
    (RecordCall /\ fn # "dbf.parse_version_text") =>
        /\ (out = <<>>) <=> (TokenFor(fn, text) = None)
        /\ out # <<>> =>
               /\ Fields(out[1]) = {"version_name", "version", "url", "scraped_date"}
               /\ out[1].version_name = CleanName(fn, text)
               /\ out[1].version = TokenFor(fn, text)
               /\ out[1].url = Url /\ out[1].scraped_date = ScrapedDate


\* the Windows Server token comes from the list of known versions: the
\* fragment has no "windows server" followed by a version number
FromServerVersions(name, t) ==
    /\ name = "winserver.parse_windows_server_text"
    /\ ~(Contains(KwWindowsServer, Lower(t)) /\ WS_extract_version_number(t) # None)

\* C22 as amended: a record is built exactly when the class's
\* version-extraction operation gives a token for the fragment; its version
\* is that token and it carries the url (and the scraping date) it was given;
\* its name is the cleaned fragment, except that a Windows Server record
\* whose token comes from the list of known versions is named "Windows
\* Server <token>"; the DBF record has no name and no scraping date: it
\* holds the token, the date string of the fragment and the url
C22_NameOrListName ==
    RecordCall =>
        /\ (out = <<>>) <=> (TokenFor(fn, text) = None)
        /\ (out # <<>> /\ fn = "dbf.parse_version_text") =>
               /\ Fields(out[1]) = {"Version", "Date", "URL"}
               /\ out[1].Version = TokenFor(fn, text)
               /\ out[1].Date = DBF_extract_date_string(text)
               /\ out[1].URL = Url
        /\ (out # <<>> /\ fn # "dbf.parse_version_text") =>
               /\ Fields(out[1]) = {"version_name", "version", "url", "scraped_date"}
               /\ out[1].version_name = IF FromServerVersions(fn, text)
                                        THEN WindowsServerPrefix \o TokenFor(fn, text)
                                        ELSE CleanName(fn, text)
               /\ out[1].version = TokenFor(fn, text)
               /\ out[1].url = Url /\ out[1].scraped_date = ScrapedDate

\* "Windows Server  2022" (two spaces) gave a record named by the cleaned
\* fragment
C22_Witness ==
    /\ fn = "winserver.parse_windows_server_text"
    /\ text = <<"W", "i", "n", "d", "o", "w", "s", " ", "S", "e", "r", "v", "e", "r", " ", " ", " ", "2", "0", "2", "2">>
    /\ out = <<Rec(<<"W", "i", "n", "d", "o", "w", "s", " ", "S", "e", "r", "v", "e", "r", " ", "2", "0", "2", "2">>, <<"2", "0", "2", "2">>, Url, ScrapedDate)>>


(***************************************************************************)
(* The keyword-driven version-token methods (Java, .NET) applied to one     *)
(* fragment that may hold several keywords                                  *)
(***************************************************************************)
Keyword_Pieces == {
    <<"j", "d", "k", " ">>, <<"J", "a", "v", "a", " ", "S", "E", " ">>, <<".", "N", "E", "T", " ">>, <<"d", "o", "t", "n", "e", "t">>, <<"8", " ">>, <<"1", ".", "0", " ">>, <<"x", " ">>, <<"7", ".", "0", ".", "3">>
}

Init_Keyword ==
    /\ RunIdle /\ BankIdle /\ LibraryIdle /\ FunctionIdle /\ SessionIdle
    /\ text \in Fragments(Keyword_Pieces, MaxParts)
    /\ fn = "none" /\ out = None /\ again = None

Next_Keyword ==
    \/ extract_dotnet_version
    \/ \E class \in {"java"} : extract_version_number(class)

SpecKeyword == Init_Keyword /\ [][Next_Keyword]_vars

(***************************************************************************)
(* What the claims on the keyword priority speak of                         *)
(***************************************************************************)
KeywordMethods == {"java.extract_version_number", "dotnet.extract_dotnet_version"}

\* the priority list of the method
PriorityList(name) == IF name = "java.extract_version_number" THEN Java_patterns ELSE DotNet_patterns

\* the places of the priority list whose keyword occurs in t (in any case)
Occurring(name, t) ==
    {k \in 1..Len(PriorityList(name)) : Find(Lower(t), PriorityList(name)[k]) # -1}

\* 1-based index of the first character after the first occurrence of kw
After(t, kw) == Find(Lower(t), kw) + Len(kw) + 1

\* 1-based index of the first digit or dot of t at or after a (Len(t) + 1 when none)
FirstRunStart(t, a) ==
    MinOf({j \in a..(Len(t) + 1) : j = Len(t) + 1 \/ IsDigit(t[j]) \/ t[j] = "."})

\* 1-based index of the first character of t at or after a that is not whitespace
SkipSpace(t, a) == MinOf({j \in a..(Len(t) + 1) : j = Len(t) + 1 \/ ~IsSpace(t[j])})

\* the run of digits and dots of t that starts at a, without the dots at its
\* ends; None when it holds no digit
RunAt(t, a) ==
    LET run == StripChar(SubSeq(t, a, RunEnd(t, a)), ".")
    IN  IF a <= Len(t) /\ AnyDigit(run) THEN run ELSE None

\* the first run of digits and dots that follows the first occurrence of kw
FirstRunAfter(t, kw) == RunAt(t, FirstRunStart(t, After(t, kw)))

RunRightAfter(t, kw) ==
    IF Find(Lower(t), kw) = -1 THEN None ELSE RunAt(t, SkipSpace(t, After(t, kw)))

\* the places of the priority list whose keyword is followed by a token
Yielding(name, t) ==
    {k \in 1..Len(PriorityList(name)) : RunRightAfter(t, PriorityList(name)[k]) # None}

\* the whitespace-delimited words of t that hold a digit and a dot and whose
\* first run of digits and dots is more than dots
DottedWords(t) ==
    {k \in 1..Len(Split(t)) :
        LET word == Split(t)[k]
        IN  /\ AnyDigit(word) /\ Contains(<<".">>, word)
            /\ StripChar(SubSeq(word, FirstRunStart(word, 1), RunEnd(word, FirstRunStart(word, 1))), ".") # <<>>}

\* the secondary heuristic: Java takes the first run of digits and dots of
\* the fragment, .NET the first run of its first dotted word
Secondary(name, t) ==
    IF name = "java.extract_version_number" THEN RunAt(t, FirstRunStart(t, 1))
    ELSE IF DottedWords(t) = {} THEN None
    ELSE LET word == Split(t)[MinOf(DottedWords(t))]
         IN  StripChar(SubSeq(word, FirstRunStart(word, 1), RunEnd(word, FirstRunStart(word, 1))), ".")

Normalised(s) ==
    /\ s # <<>> => (~IsSpace(s[1]) /\ ~IsSpace(s[Len(s)]))
    /\ \A k \in 1..(Len(s) - 1) : ~(IsSpace(s[k]) /\ IsSpace(s[k + 1]))

\* C24 as stated: whatever the input, the result of the text-cleaning
\* operation has no whitespace at its ends and no two adjacent whitespace
\* characters, also where citation markers were removed
C24_Original == (fn \in CleanTextMethods /\ out # NonTerminating) => Normalised(out)


\* C25: a construction with a negative initial balance raises ValueError and
\* creates no account; the balance of every account is never negative and
\* always equals its initial balance plus the deposits that returned minus
\* the withdrawals that returned, whatever calls failed in between.
C25_BalanceIsLedger ==
    /\ Len(ledger) = Len(accounts)
    /\ \A a \in 1..Len(accounts) :
           accounts[a].balance >= 0 /\ accounts[a].balance = ledger[a]
    /\ \A i \in 1..Len(call) :
           call[i].op = "__init__" =>
               IF call[i].amount < 0
               THEN call[i].raised = "ValueError" /\ call[i].account = 0
               ELSE call[i].raised = "none" /\ call[i].account = Len(accounts)

\* a withdrawal of 2 has returned and left 1: the account held 3, more than
\* any initial balance, so deposits came before it
C25_Witness ==
    /\ Len(call) = 1
    /\ call[1].op = "withdraw" /\ call[1].raised = "none"
    /\ call[1].amount = 2
    /\ accounts[call[1].account].balance = 1
    /\ ledger[call[1].account] = 1

\* ---------------------------------------------------------------------
\* The state of the library between two calls
\* ---------------------------------------------------------------------

\* how often book b stands in a list of borrowed books
Times(list, b) == Cardinality({i \in 1..Len(list) : list[i] = b})

\* C26: between any two calls of borrow_book and return_book, a book is
\* unavailable exactly when it has a borrower and exactly when it has a due
\* date; it stands in a member's list exactly when that member is its
\* borrower; no book stands in two lists or twice in one.
C26_Consistent ==
    /\ \A b \in DOMAIN books :
           /\ ~books[b].available <=> books[b].borrowed_by # <<>>
           /\ books[b].borrowed_by # <<>> <=> books[b].due_date # <<>>
           /\ \A m \in Members : Holds(borrowed_books[m], b) <=> books[b].borrowed_by = <<m>>
           /\ \A m \in Members : Times(borrowed_books[m], b) <= 1
           /\ \A m, n \in Members :
                  Holds(borrowed_books[m], b) /\ Holds(borrowed_books[n], b) => m = n

\* both members hold books, and a book has just come back: it is available
\* again and in no list, while the other member still holds theirs
C26_Witness ==
    /\ Len(reply) = 1
    /\ reply[1].op = "return_book" /\ reply[1].member = 1
    /\ reply[1].message = ReturnedSuccessfully(reply[1].book)
    /\ books[reply[1].book].available
    /\ ~Holds(borrowed_books[1], reply[1].book)
    /\ Len(borrowed_books[1]) >= 2
    /\ Len(borrowed_books[2]) = 1

\* C27 as stated: borrow_book on a book that is already borrowed returns the
\* "not available" message and changes neither the book nor any list;
\* return_book by a member who does not hold the book returns "This book was
\* not borrowed by you" and leaves the book as it was.
C27_Original ==
    [][\A i \in 1..Len(reply') :
           LET r == reply'[i]
           IN  /\ (reply' # reply /\ r.op = "borrow_book" /\ ~r.was.available)
                      => /\ r.message = NotAvailable(r.book)
                         /\ UNCHANGED <<books, borrowed_books>>
               /\ (reply' # reply /\ r.op = "return_book" /\ ~Holds(r.held, r.book))
                      => /\ r.message = NotBorrowedByYou
                         /\ UNCHANGED <<books, borrowed_books>>]_vars

\* C27: borrow_book on a book that is already borrowed returns the "not
\* available" message when the caller holds fewer than five books and the
\* "Cannot borrow more than 5 books" message when the caller holds five;
\* return_book by a member who does not hold the book returns "This book was
\* not borrowed by you"; in all three cases the book and every member's list
\* are left as they were.
C27_RefusedChangesNothing ==
    [][\A i \in 1..Len(reply') :
           LET r == reply'[i]
               refused == \/ r.op = "borrow_book" /\ ~r.was.available
                          \/ r.op = "return_book" /\ ~Holds(r.held, r.book)
               message == IF r.op = "return_book" THEN NotBorrowedByYou
                          ELSE IF Len(r.held) < LoanLimit THEN NotAvailable(r.book)
                          ELSE CannotBorrow
           IN  (reply' # reply /\ refused)
                   => /\ r.message = message
                      /\ r.was = books[r.book] /\ r.held = borrowed_books[r.member]
                      /\ UNCHANGED <<books, borrowed_books>>]_vars

\* member1, holding fewer than five books, has asked for the book member2
\* holds and was told it is not available: member2 still has it
C27_Witness ==
    /\ Len(reply) = 1
    /\ reply[1].op = "borrow_book" /\ reply[1].member = 1
    /\ reply[1].message = NotAvailable(reply[1].book)
    /\ reply[1].was.borrowed_by = <<2>>
    /\ books[reply[1].book] = reply[1].was
    /\ Holds(borrowed_books[2], reply[1].book)
    /\ Len(borrowed_books[1]) \in 1..(LoanLimit - 1)
    /\ borrowed_books[1] = reply[1].held


(***************************************************************************)
(* The Fibonacci series (WEEK 2/programs/fibonacci/fibonacci.py).  Python   *)
(* integers are unbounded: terms are plain integers here.                   *)
(***************************************************************************)
MaxTerms == 12

\* what a call gave: the exception it raised, or the value it returned
Raises(e) == [raised |-> e, returned |-> <<>>]

Returned(v) == [raised |-> "none", returned |-> v]

\* for i in range(i, n): series.append(series[i-1] + series[i-2])
RECURSIVE Fib_append_loop(_, _, _)
Fib_append_loop(series, i, n) ==
    IF i >= n THEN series
    ELSE Fib_append_loop(Append(series, series[i] + series[i - 1]), i + 1, n)

Fib_fibonacci_iterative(n) ==
    IF n <= 0 THEN Raises("ValueError")
    ELSE IF n = 1 THEN Returned(<<0>>)
    ELSE Returned(Fib_append_loop(<<0, 1>>, 2, n))

\* the helper that appends the last term itself instead of the sum
RECURSIVE Fib_fib_helper_Repeat(_)
Fib_fib_helper_Repeat(count) ==
    IF count = 1 THEN <<0>>
    ELSE IF count = 2 THEN <<0, 1>>
    ELSE LET prev_series == Fib_fib_helper_Repeat(count - 1)
         IN  Append(prev_series, prev_series[Len(prev_series)])

RECURSIVE Fib_fib_helper(_)
Fib_fib_helper(count) ==
    IF count = 1 THEN <<0>>
    ELSE IF count = 2 THEN <<0, 1>>
    ELSE LET prev_series == Fib_fib_helper(count - 1)
         IN  Append(prev_series, prev_series[Len(prev_series)] + prev_series[Len(prev_series) - 1])

Fib_fibonacci_recursive(n) ==
    IF n <= 0 THEN Raises("ValueError") ELSE Returned(Fib_fib_helper(n))

\* the frame of a generator object that has not run yet
Fib_fibonacci_generator(n) == [n |-> n, a |-> 0, b |-> 1, left |-> 0, at |-> "created"]

\* the generator that advances before its first yield
Fib_next_Ahead(g) ==
    IF g.at = "created"
    THEN IF g.n <= 0 THEN [frame |-> [g EXCEPT !.at = "closed"], out |-> Raises("ValueError")]
         ELSE [frame |-> [g EXCEPT !.a = g.b, !.b = g.a + g.b, !.left = g.n - 1, !.at = "yield"],
               out |-> Returned(<<g.b>>)]
    ELSE IF g.at = "yield" /\ g.left > 0
    THEN [frame |-> [g EXCEPT !.a = g.b, !.b = g.a + g.b, !.left = g.left - 1],
          out |-> Returned(<<g.b>>)]
    ELSE [frame |-> [g EXCEPT !.at = "closed"], out |-> Raises("StopIteration")]

\* next(generator): the body runs to its next yield, to its raise, or to its end
Fib_next(g) ==
    IF g.at = "created"
    THEN IF g.n <= 0 THEN [frame |-> [g EXCEPT !.at = "closed"], out |-> Raises("ValueError")]
         ELSE [frame |-> [g EXCEPT !.left = g.n - 1, !.at = "yield"], out |-> Returned(<<g.a>>)]
    ELSE IF g.at = "yield" /\ g.left > 0
    THEN [frame |-> [g EXCEPT !.a = g.b, !.b = g.a + g.b, !.left = g.left - 1],
          out |-> Returned(<<g.b>>)]
    ELSE [frame |-> [g EXCEPT !.at = "closed"], out |-> Raises("StopIteration")]

\* a call of one of the list functions
Gave(name, v) ==
    /\ func = "none"
    /\ func' = name
    /\ produced' = v
    /\ UNCHANGED <<args, generator, run_vars, text_vars, bank_vars, library_vars, session_vars>>

fibonacci_iterative ==
    /\ Len(args) = 1
    /\ Gave("fibonacci_iterative", Fib_fibonacci_iterative(args[1]))

fibonacci_recursive ==
    /\ Len(args) = 1
    /\ Gave("fibonacci_recursive", Fib_fibonacci_recursive(args[1]))

\* the call returns the generator object; nothing of the body has run
fibonacci_generator ==
    /\ Len(args) = 1
    /\ func = "none"
    /\ func' = "fibonacci_generator"
    /\ generator' = <<Fib_fibonacci_generator(args[1])>>
    /\ produced' = Returned(<<>>)
    /\ UNCHANGED <<args, run_vars, text_vars, bank_vars, library_vars, session_vars>>

\* list(generator) asks for the next value until the generator stops or raises
list_next ==
    /\ func = "fibonacci_generator"
    /\ generator # <<>> /\ generator[1].at # "closed"
    /\ LET got == Fib_next(generator[1])
       IN  /\ generator' = <<got.frame>>
           /\ produced' = IF got.out.raised = "none"
                          THEN Returned(produced.returned \o got.out.returned)
                          ELSE IF got.out.raised = "StopIteration" THEN produced
                          ELSE Raises(got.out.raised)
    /\ UNCHANGED <<func, args, run_vars, text_vars, bank_vars, library_vars, session_vars>>

Init_Fibonacci ==
    /\ RunIdle /\ TextIdle /\ BankIdle /\ LibraryIdle /\ SessionIdle
    /\ func = "none" /\ produced = <<>> /\ generator = <<>>
    /\ args \in {<<n>> : n \in -1..MaxTerms}

Next_Fibonacci ==
    \/ fibonacci_iterative
    \/ fibonacci_recursive
    \/ fibonacci_generator
    \/ list_next

SpecFibonacci == Init_Fibonacci /\ [][Next_Fibonacci]_vars

\* the call is over: a list function has returned or raised, or list() has
\* run the generator to its end
Finished ==
    \/ func \in {"fibonacci_iterative", "fibonacci_recursive"}
    \/ func = "fibonacci_generator" /\ generator[1].at = "closed"

\* the first n terms of the series 0, 1, 1, 2, 3, 5, ...
IsSeries(series, n) ==
    /\ Len(series) = n
    /\ n >= 1 => series[1] = 0
    /\ n >= 2 => series[2] = 1
    /\ \A i \in 3..n : series[i] = series[i - 1] + series[i - 2]

\* C28: for n >= 1 the three functions give the same sequence of exactly n
\* terms, starting 0, 1, each later term the sum of the two before it; for
\* n <= 0 each raises ValueError and gives no term.
C28_SameSeries ==
    Finished =>
        LET n == args[1]
        IN  IF n >= 1
            THEN /\ produced.raised = "none"
                 /\ IsSeries(produced.returned, n)
                 /\ produced = Fib_fibonacci_iterative(n)
                 /\ produced = Fib_fibonacci_recursive(n)
            ELSE produced = Raises("ValueError")

\* list() has run the generator of MaxTerms terms to its end
C28_Witness ==
    /\ func = "fibonacci_generator"
    /\ args = <<MaxTerms>>
    /\ generator[1].at = "closed"
    /\ Len(produced.returned) = MaxTerms
    /\ produced.returned[MaxTerms] = Fib_fibonacci_recursive(MaxTerms).returned[MaxTerms]
    /\ produced.returned[8] = 13


(***************************************************************************)
(* The palindrome numbers (Python_Assigment/programs/palindrome/            *)
(* palindrome.py)                                                           *)
(***************************************************************************)
MaxNumber == 121

MaxSpan == 12

\* while number > 0: digit = number % 10; reversed_num = reversed_num * 10 + digit;
\* number = number // 10
RECURSIVE Pal_reverse_loop(_, _)
Pal_reverse_loop(number, reversed_num) ==
    IF number > 0
    THEN Pal_reverse_loop(number \div 10, (reversed_num * 10) + (number % 10))
    ELSE reversed_num

Pal_is_number_palindrome(number) ==
    IF number < 0 THEN FALSE
    ELSE number = Pal_reverse_loop(number, 0)

\* for num in range(start, end + 1): if is_number_palindrome(num): palindromes.append(num)
RECURSIVE Pal_range_loop(_, _, _)
Pal_range_loop(num, stop, palindromes) ==
    IF num >= stop THEN palindromes
    ELSE Pal_range_loop(num + 1, stop,
                        IF Pal_is_number_palindrome(num) THEN Append(palindromes, num)
                        ELSE palindromes)

\* the function with range(start, end)
Pal_find_palindromes_in_range_Exclusive(start, end) == Pal_range_loop(start, end, <<>>)

Pal_find_palindromes_in_range(start, end) == Pal_range_loop(start, end + 1, <<>>)

is_number_palindrome ==
    /\ Len(args) = 1
    /\ Gave("is_number_palindrome", Returned(Pal_is_number_palindrome(args[1])))

find_palindromes_in_range ==
    /\ Len(args) = 2
    /\ Gave("find_palindromes_in_range", Returned(Pal_find_palindromes_in_range(args[1], args[2])))

\* one number, or a range that starts at a number and ends at most MaxSpan
\* later (or one earlier: the empty range)
Init_Palindrome ==
    /\ RunIdle /\ TextIdle /\ BankIdle /\ LibraryIdle /\ SessionIdle
    /\ func = "none" /\ produced = <<>> /\ generator = <<>>
    /\ args \in {<<n>> : n \in -MaxNumber..MaxNumber}
           \cup {<<start, start + span>> : start \in -MaxSpan..MaxNumber, span \in -1..MaxSpan}

Next_Palindrome ==
    \/ is_number_palindrome
    \/ find_palindromes_in_range

SpecPalindrome == Init_Palindrome /\ [][Next_Palindrome]_vars

\* str(n) for n >= 0: the decimal digits, the first one first
RECURSIVE DigitString(_)
DigitString(n) == IF n < 10 THEN <<n>> ELSE Append(DigitString(n \div 10), n % 10)

Mirror(s) == [i \in 1..Len(s) |-> s[Len(s) + 1 - i]]

\* the number reads the same in both directions
ReadsBothWays(n) == n >= 0 /\ DigitString(n) = Mirror(DigitString(n))

\* C29: is_number_palindrome(n) returns True exactly when n >= 0 and the
\* decimal digits of n read the same in both directions (so for 0 and every
\* single digit, for no negative number and no positive multiple of 10);
\* find_palindromes_in_range(start, end) returns, in ascending order, exactly
\* the numbers from start to end for which is_number_palindrome is True.
C29_DigitsMirror ==
    /\ func = "is_number_palindrome" =>
           LET n == args[1]
           IN  /\ produced.raised = "none"
               /\ produced.returned <=> ReadsBothWays(n)
               /\ n \in 0..9 => produced.returned
               /\ n < 0 => ~produced.returned
               /\ (n > 0 /\ n % 10 = 0) => ~produced.returned
    /\ func = "find_palindromes_in_range" =>
           LET found == produced.returned
           IN  /\ produced.raised = "none"
               /\ \A i \in 1..(Len(found) - 1) : found[i] < found[i + 1]
               /\ {found[i] : i \in 1..Len(found)}
                      = {k \in args[1]..args[2] : Pal_is_number_palindrome(k)}
               /\ \A i \in 1..Len(found) : ReadsBothWays(found[i])

\* the range from 99 to 111 gave 99, 101 and 111
C29_Witness ==
    /\ func = "find_palindromes_in_range"
    /\ args = <<99, 111>>
    /\ produced.returned = <<99, 101, 111>>


(***************************************************************************)
(* The browser session of one scraper run: the construction of the scraper *)
(* (setup_driver), the extraction, save_to_csv and the finally clause of    *)
(* main() of the five scraper classes, and the Windows 11 script, whose     *)
(* function creates the driver itself and quits it in its own finally.      *)
(* Any call on the driver may raise; an exception is an Exception or, like  *)
(* KeyboardInterrupt, a BaseException that no `except Exception` catches.   *)
(***************************************************************************)
Sites == Scrapers \cup {"windows11"}

Exceptions == {"Exception", "BaseException"}

\* the session webdriver.Firefox(...) or webdriver.Chrome(...) created
Session == [open |-> TRUE, quits |-> 0, late |-> 0]

\* a page or element call on the session
Operated(d) == IF d # <<>> /\ ~d[1].open THEN <<[d[1] EXCEPT !.late = @ + 1]>> ELSE d

\* driver.quit()
Quit(d) == <<[d[1] EXCEPT !.open = FALSE, !.quits = @ + 1]>>

SessionUnchanged == UNCHANGED <<run_vars, text_vars, bank_vars, library_vars, function_vars>>

\* the sites whose close_driver wraps the quit in try/except Exception
QuitGuarded == {"dotnet", "winserver", "oracle"}

\* scraper = XScraper(): __init__ calls setup_driver, which creates the
\* session and then calls implicitly_wait on it; the name scraper is bound
\* only when __init__ returns.  The Windows 11 script calls setup_driver()
\* before its try, and that function only creates the session.
setup_driver ==
    /\ step = "start"
    /\ \/ \* webdriver.Firefox / webdriver.Chrome raises: no session
          /\ \E e \in Exceptions : exception' = e
          /\ step' = IF site = "windows11" THEN "done" ELSE "except"
          /\ UNCHANGED <<driver, constructed>>
       \/ \* the session is created and implicitly_wait raises
          /\ site # "windows11"
          /\ \E e \in Exceptions : exception' = e
          /\ driver' = <<Session>>
          /\ step' = "except"
          /\ UNCHANGED constructed
       \/ /\ driver' = <<Session>>
          /\ constructed' = TRUE
          /\ step' = "extract"
          /\ UNCHANGED exception
    /\ UNCHANGED <<site, extracted>>
    /\ SessionUnchanged

\* where the run goes when the extraction has returned its list
AfterExtraction == IF site = "windows11" THEN "finally" ELSE "save"

\* the extraction: page and element calls on the session inside the
\* method's try; it returns records, or nothing, or a call raises
extraction ==
    /\ step = "extract"
    /\ driver' = Operated(driver)
    /\ \/ /\ \E list \in {"some", "nothing"} : extracted' = list
          /\ step' = AfterExtraction
          /\ UNCHANGED exception
       \/ /\ \E e \in Exceptions : exception' = e
          /\ step' = "extract_except"
          /\ UNCHANGED extracted
    /\ UNCHANGED <<site, constructed>>
    /\ SessionUnchanged

\* the extraction method's own `except Exception`: it returns a list all
\* the same; a BaseException leaves the method
extract_except ==
    /\ step = "extract_except"
    /\ IF exception = "Exception"
       THEN /\ exception' = "none"
            /\ extracted' = "nothing"
            /\ step' = AfterExtraction
       ELSE /\ step' = IF site = "windows11" THEN "finally" ELSE "except"
            /\ UNCHANGED <<exception, extracted>>
    /\ UNCHANGED <<site, driver, constructed>>
    /\ SessionUnchanged

\* save_to_csv: the scraper classes call it inside main's try and the method
\* catches Exception itself; the Windows 11 script calls it, after its
\* function has returned, outside any try
saving ==
    /\ step = "save"
    /\ \/ /\ step' = IF site = "windows11" THEN "done" ELSE "finally"
          /\ UNCHANGED exception
       \/ /\ site # "windows11"
          /\ exception' = "BaseException"
          /\ step' = "except"
       \/ /\ site = "windows11" /\ extracted = "some"
          /\ \E e \in Exceptions : exception' = e
          /\ step' = "done"
    /\ UNCHANGED <<site, driver, constructed, extracted>>
    /\ SessionUnchanged

\* main's except Exception as e: print(...)
except_Exception ==
    /\ step = "except"
    /\ step' = "finally"
    /\ exception' = IF exception = "Exception" THEN "none" ELSE exception
    /\ UNCHANGED <<site, driver, constructed, extracted>>
    /\ SessionUnchanged

\* finally: if scraper: scraper.close_driver(), which quits self.driver if
\* the object has one; the Windows 11 function quits its driver.  The quit
\* may raise as well.
close_driver ==
    /\ step = "finally"
    /\ IF site # "windows11" /\ ~constructed
       THEN /\ step' = "done"
            /\ UNCHANGED <<driver, exception>>
       ELSE /\ driver' = Quit(driver)
            /\ \/ /\ step' = IF site = "windows11" /\ exception = "none" THEN "save" ELSE "done"
                  /\ UNCHANGED exception
               \/ /\ \E e \in Exceptions :
                         exception' = IF e = "Exception" /\ site \in QuitGuarded
                                      THEN exception ELSE e
                  /\ step' = "done"
    /\ UNCHANGED <<site, constructed, extracted>>
    /\ SessionUnchanged

Init_Session ==
    /\ RunIdle /\ TextIdle /\ BankIdle /\ LibraryIdle /\ FunctionIdle
    /\ site \in Sites
    /\ step = "start"
    /\ driver = <<>>
    /\ constructed = FALSE
    /\ extracted = "none"
    /\ exception = "none"

Next_Session ==
    \/ setup_driver
    \/ extraction
    \/ extract_except
    \/ saving
    \/ except_Exception
    \/ close_driver

SpecSession == Init_Session /\ [][Next_Session]_vars

\* C30 as stated: a session that was created has been quit when the run
\* ends, on every path; it is quit at most once; no page or element call is
\* made on it after it was quit.
C30_Original ==
    \A i \in 1..Len(driver) :
        /\ step = "done" => driver[i].quits >= 1
        /\ driver[i].quits <= 1
        /\ driver[i].late = 0

====
